---- MODULE Spec2Model ----
(***************************************************************************)
(* Model of the agent memory and control-loop engine of ux_alpha:          *)
(*   src/src/backend/memory_stream.py   (MemoryStream, the ledger)         *)
(*   src/src/backend/llm_agent.py       (LLMAgent, fast/slow loop, driver) *)
(*   src/src/backend/universal_browser_connector.py (execute_action)       *)
(*                                                                         *)
(* Text is modelled as a sequence of whitespace-separated words; numbers   *)
(* with one decimal are held in tenths (8.0 is 80).  The three external    *)
(* collaborators are environment choices: the language model returns one   *)
(* of a few responses, the browser performs or fails an action, and the    *)
(* embedding model may raise.  llm_agent.py is modelled with the names re  *)
(* and Union resolved (the file uses both without importing them).         *)
(***************************************************************************)
EXTENDS Integers, Sequences, FiniteSets, TLC

\* ------------------------------------------------------------------ bounds
\* run_complete_session is called with max_cycles in 0..MaxCyclesArg
MaxCyclesArg == 4
\* number of responses of the language model in one run that carry items
\* (observations, a plan, actions, insights, thoughts); its other responses
\* are empty or carry nothing the modules use
MaxOutputs == 1
\* number of provider failures (embedding model or browser page raising)
\* injected in one run
MaxFaults == 1
\* number of responses that carry actions in a run of a language model that
\* answers the action prompt only
MaxActing == 2

\* --------------------------------------------------------------- constants
\* max_cycles of run_complete_session when the caller gives none
DefaultMaxCycles == 10
PersonaImportance == 80
IntentImportance == 100
NavigationImportance == 70
PlanImportance == 80
ActionImportance == 80
FailureImportance == 90
ReflectionImportance == 70
WonderImportance == 40
SlowLoopPeriod == 3
FailureWindow == 3
FailureThreshold == 2

VARIABLES
    memories,        \* MemoryStream.memories: the ledger, a sequence of records
    clock,           \* datetime.now().timestamp() as read by the next add_memory
    persona,         \* LLMAgent.persona
    intent,          \* LLMAgent.intent (a sequence of words, <<>> is "")
    current_plan,    \* LLMAgent.current_plan
    next_step,       \* LLMAgent.next_step
    pc,              \* position of the caller / of run_complete_session
    cycle,           \* the loop variable of run_complete_session
    max_cycles,      \* argument of run_complete_session
    start_url,       \* argument of run_complete_session
    batch,           \* action_result of _run_action_module: the parsed actions
    bi,              \* index in batch of the action being handled
    cycle_result,    \* value returned by the last run_fast_loop_cycle
    browser_url,     \* stagehand_page.url()
    browser_history, \* pages the browser can go back to
    dispatched,      \* the calls start_session and _run_action_module made to the
                     \* browser connector so far, each with what it returned and
                     \* the ledger's clock at the call
    faults,          \* provider failures injected so far
    outputs,         \* responses of the language model that carried items so far
    session_result,  \* value returned by run_complete_session
    error,           \* exception that left run_complete_session
    fast_cycles,     \* run_fast_loop_cycle calls begun in this session
    stopped,         \* how the for loop ended: "break" (line 851) or "exhausted"
    actions_before,  \* action_taken records in the ledger when the current cycle began
    reflect_runs,    \* run_reflection_module calls made in this session
    wonder_runs,     \* run_wonder_module calls made in this session
    slow_since_fast, \* <<reflect calls, wonder calls>> since the last fast-loop cycle began
    last_reflect_out,\* value returned by the latest run_reflection_module
    last_wonder_out, \* value returned by the latest run_wonder_module
    reflections,     \* local variable reflections of run_complete_session
    wonderings,      \* local variable wonderings of run_complete_session
    plan_complete,   \* the response _run_planning_module read last was a JSON object
                     \* with rationale, plan and next_step
    call,            \* the latest call a client made on the MemoryStream, with its arguments
    returned,        \* what that call returned, or the exception it raised
    file,            \* content of the file written by save_to_file
    loaded,          \* MemoryStream.memories of the instance load_from_file returned
    service,         \* the module-level state of api.py and the objects of the
                     \* simulations it runs
    module_runs,     \* calls of _run_perception_module, _run_planning_module and
                     \* _run_action_module in the current fast-loop cycle
    llm_calls,       \* _call_llm calls made by the latest module invocation
    allowance        \* for each key the modules read: the number of item-carrying
                     \* responses after which the language model gives that module
                     \* nothing more, and whether its responses carry one item only

vars == <<memories, clock, persona, intent, current_plan, next_step, pc, cycle,
          max_cycles, start_url, batch, bi, cycle_result, browser_url,
          browser_history, dispatched, faults, outputs, session_result, error,
          fast_cycles, stopped, actions_before, reflect_runs, wonder_runs,
          slow_since_fast, last_reflect_out, last_wonder_out, reflections, wonderings,
          plan_complete, call, returned, file, loaded, service, module_runs,
          llm_calls, allowance>>

\* ------------------------------------------------------------- text helpers
\* str.lower() on one word
LowerWord(w) ==
    CASE w = "Task" -> "task"
      [] w = "COMPLETED" -> "completed"
      [] w = "Completed" -> "completed"
      [] w = "Failed-Orders" -> "failed-orders"
      [] w = "Click" -> "click"
      [] w = "NAVIGATE" -> "navigate"
      [] w = "Action" -> "action"
      [] w = "Navigated" -> "navigated"
      [] w = "Clicked" -> "clicked"
      [] w = "Unknown" -> "unknown"
      [] w = "Unsupported" -> "unsupported"
      [] w = "Plan:" -> "plan:"
      [] w = "Next" -> "next"
      [] w = "My" -> "my"
      [] OTHER -> w

\* the lower-case words of the model that have `marker` as a substring
WordsWith(marker) ==
    CASE marker = "failed" -> {"failed", "failed:", "failed-orders"}
      [] marker = "completed" -> {"completed", "completed."}
      [] marker = "task" -> {"task", "tasks", "task."}
      [] OTHER -> {marker}

\* marker in text.lower(), for a marker without blanks
InLower(marker, text) ==
    \E i \in DOMAIN text : LowerWord(text[i]) \in WordsWith(marker)

\* dict.get(key, default)
Get(d, key, default) == IF key \in DOMAIN d THEN d[key] ELSE default

\* ------------------------------------------------------------ Memory Store
\* The embedding model: a text becomes the vector that has, for each word of
\* Vocabulary, 1 if the text contains the word (in any case of letters) and 0
\* if not.  Texts with the same words get the same vector.
Vocabulary == <<"red", "sweater", "blue", "jacket", "buy">>
encode(text) ==
    [k \in DOMAIN Vocabulary |->
        IF \E i \in DOMAIN text : LowerWord(text[i]) = Vocabulary[k] THEN 1 ELSE 0]

\* MemoryStream.add_memory: the record appended to the ledger
NewMemory(clk, memory_type, content, source_module, importance_score, metadata) ==
    [id |-> clk, type |-> memory_type, content |-> content, timestamp |-> clk,
     source_module |-> source_module, embedding |-> encode(content),
     importance_score |-> importance_score, metadata |-> metadata]

NoMetadata == [empty |-> TRUE]

\* the ledger with the new record put in front (list.insert(0, memory))
add_memory_in_front(mems, clk, memory_type, content, source_module, importance_score, metadata) ==
    <<NewMemory(clk, memory_type, content, source_module,
                importance_score, metadata)>> \o mems

add_memory(mems, clk, memory_type, content, source_module, importance_score, metadata) ==
    Append(mems, NewMemory(clk, memory_type, content, source_module,
                           importance_score, metadata))

\* MemoryStream.get_memories_by_type: a new list, in ledger order
get_memories_by_type(mems, memory_type) ==
    SelectSeq(mems, LAMBDA m : m.type = memory_type)

\* list.sort(key=timestamp, reverse=True): stable, equal keys keep their order
RECURSIVE InsertByTimestamp(_, _)
InsertByTimestamp(sorted, m) ==
    IF sorted = <<>> THEN <<m>>
    ELSE IF Head(sorted).timestamp >= m.timestamp
         THEN <<Head(sorted)>> \o InsertByTimestamp(Tail(sorted), m)
         ELSE <<m>> \o sorted

RECURSIVE SortByTimestampDesc(_)
SortByTimestampDesc(s) ==
    IF s = <<>> THEN <<>>
    ELSE InsertByTimestamp(SortByTimestampDesc(SubSeq(s, 1, Len(s) - 1)), s[Len(s)])

\* s[:n]
Take(s, n) == SubSeq(s, 1, IF n < Len(s) THEN n ELSE Len(s))

\* a loop `for x in items: add_memory(type, x, ...)` after its first n rounds;
\* scores[i] is the importance given to items[i]
RECURSIVE AddEach(_, _, _, _, _, _, _)
AddEach(mems, clk, memory_type, items, source_module, scores, n) ==
    IF n = 0 THEN mems
    ELSE add_memory(AddEach(mems, clk, memory_type, items, source_module,
                             scores, n - 1),
                    clk + n - 1, memory_type, items[n], source_module,
                    scores[n], NoMetadata)

\* the same importance for every item
Each(items, importance_score) == [i \in DOMAIN items |-> importance_score]

\* the embedding model either answers or raises; at most MaxFaults raises a run
MayFail == IF faults < MaxFaults THEN {FALSE, TRUE} ELSE {FALSE}
\* number of rounds a loop of n add_memory calls completes: all, or fewer when
\* the embedding model raises in round k + 1
Rounds(n) == IF faults < MaxFaults THEN 0 .. n ELSE {n}

\* ------------------------------------------------------------------ inputs
NoPersona == <<>>
\* persona dictionaries, as the ordered list of their items
Personas ==
    { NoPersona,
      << [key |-> "name:", kind |-> "str", value |-> <<"Ann">>],
         [key |-> "age:", kind |-> "int", value |-> <<"35">>],
         [key |-> "traits:", kind |-> "list", value |-> << <<"thrifty">> >>] >> }

NoIntent == <<>>
Intents == { NoIntent, <<"buy", "red", "sweater">> }

Urls == { "shop", "cart" }
StartUrls == { "shop" }

\* LLMAgent.set_persona: the contents added, in order
RECURSIVE PersonaDetails(_)
PersonaDetails(p) ==
    IF p = <<>> THEN <<>>
    ELSE LET it == Head(p) IN
         (CASE it.kind = "str" -> << <<it.key>> \o it.value >>
            [] it.kind = "list" ->
                 [i \in 1 .. Len(it.value) |-> <<it.key>> \o it.value[i]]
            [] OTHER -> <<>>)
         \o PersonaDetails(Tail(p))

Session == <<pc, cycle, max_cycles, start_url, batch, bi, cycle_result,
             session_result, error, fast_cycles, stopped, actions_before,
             reflect_runs, wonder_runs, slow_since_fast, last_reflect_out,
             last_wonder_out, reflections, wonderings>>
Browser == <<browser_url, browser_history, dispatched>>
Plan == <<current_plan, next_step>>
StoreUse == <<call, returned, file, loaded>>
\* no module has run in the cycle
NoRuns == [perceive |-> 0, plan |-> 0, act |-> 0]
Calls == <<module_runs, llm_calls>>

\* LLMAgent.set_persona, called once before a session and before set_intent
\* (api.py, lines 179-180)
set_persona ==
    /\ pc = "idle"
    /\ persona = NoPersona
    /\ intent = NoIntent
    /\ get_memories_by_type(memories, "intent") = <<>>
    /\ \E p \in Personas :
         LET details == PersonaDetails(p) IN
         \E n \in Rounds(Len(details)) :
            /\ persona' = p
            /\ memories' = AddEach(memories, clock, "persona_detail", details,
                                   "PersonaLoader",
                                   Each(details, PersonaImportance), n)
            /\ clock' = clock + n
            /\ faults' = IF n < Len(details) THEN faults + 1 ELSE faults
    /\ UNCHANGED <<intent, Plan, Session, Browser, outputs>>
    /\ UNCHANGED <<plan_complete, StoreUse, service, allowance, Calls>>

\* LLMAgent.set_intent, called once before a session
set_intent ==
    /\ pc = "idle"
    /\ intent = NoIntent
    /\ get_memories_by_type(memories, "intent") = <<>>
    /\ \E i \in Intents, fail \in MayFail :
         /\ intent' = i
         /\ memories' = IF fail THEN memories
                        ELSE add_memory(memories, clock, "intent",
                                        <<"My", "goal", "is", "to:">> \o i,
                                        "IntentLoader", IntentImportance, NoMetadata)
         /\ clock' = IF fail THEN clock ELSE clock + 1
         /\ faults' = IF fail THEN faults + 1 ELSE faults
    /\ UNCHANGED <<persona, Plan, Session, Browser, outputs>>
    /\ UNCHANGED <<plan_complete, StoreUse, service, allowance, Calls>>

\* ---------------------------------------------------------- Language Model
\* Python values that can be None
None == [t |-> "none"]
Str(words) == [t |-> "str", v |-> words]
List(items) == [t |-> "list", v |-> items]
\* `not x`
Falsy(x) == x.t = "none" \/ x.v = <<>>
\* str(x) inside an f-string
Format(x) == IF x.t = "none" THEN <<"None">> ELSE x.v

\* What _call_llm returns.  kind "empty": "" (also after a failed call, lines
\* 751-753); "text": prose without a JSON object; "array": valid JSON that is
\* not an object; "json": a JSON object with the fields `data`.  `items` is
\* what the list patterns of _extract_list_items find in the raw text.
NoData == [no_data |-> None]
EmptyResponse == [kind |-> "empty", data |-> NoData, items |-> <<>>]
TextResponse(items) == [kind |-> "text", data |-> NoData, items |-> items]
ArrayResponse == [kind |-> "array", data |-> NoData, items |-> <<>>]
JsonResponse(data) == [kind |-> "json", data |-> data, items |-> <<>>]

Raised == [raised |-> TRUE, value |-> None]
Returned(v) == [raised |-> FALSE, value |-> v]

\* LLMAgent._parse_json_response with one expected key
parse_json_key(response, key) ==
    CASE response.kind = "json" -> Returned(Get(response.data, key, None))
      [] response.kind = "array" -> Raised        \* list has no .get
      [] OTHER -> Returned(None)                  \* json.JSONDecodeError

\* LLMAgent._parse_json_response with a list of expected keys
parse_json_keys(response, keys) ==
    CASE response.kind = "json" ->
            Returned([t |-> "dict", v |-> [k \in keys |-> Get(response.data, k, None)]])
      [] response.kind = "array" -> Raised
      [] OTHER -> Returned(None)

\* LLMAgent._extract_list_items
extract_list_items(response) == response.items

Observation1 == <<"search", "button", "finds", "sweater">>
Observation2 == <<"page", "lists", "Failed-Orders">>
PerceiveResponses ==
    { EmptyResponse, ArrayResponse,
      JsonResponse([observations |-> List(<<Observation1>>)]),
      JsonResponse([notes |-> List(<<Observation1>>)]),
      TextResponse(<<Observation2>>) }

PlanA == <<"open", "search">>
StepA == <<"type", "sweater">>
PlanResponses ==
    { EmptyResponse, ArrayResponse, TextResponse(<<>>),
      JsonResponse([rationale |-> Str(<<"why">>), plan |-> Str(PlanA),
                    next_step |-> Str(StepA)]),
      JsonResponse([plan |-> Str(PlanA)]) }

Reflection1 == <<"site", "is", "slow">>
Reflection2 == <<"Task", "COMPLETED">>
ReflectResponses ==
    { EmptyResponse, ArrayResponse,
      JsonResponse([insights |-> List(<<Reflection1>>)]),
      JsonResponse([insights |-> List(<<Reflection2>>)]),
      TextResponse(<<Reflection1>>) }

Wonder1 == <<"free", "shipping?">>
WonderResponses ==
    { EmptyResponse, ArrayResponse,
      JsonResponse([thoughts |-> List(<<Wonder1>>)]) }

\* the records a response can make its module append, at most
Yield(response, key) ==
    IF response.kind = "json" /\ ~Falsy(Get(response.data, key, None))
    THEN Len(response.data[key].v)
    ELSE Len(response.items)

\* what the modules read from a response
ResponseKeys == {"observations", "plan", "actions", "insights", "thoughts"}

\* the responses the language model can give to a module
Within(responses, key) ==
    { r \in responses :
        \/ Yield(r, key) = 0
        \/ outputs < allowance[key].responses /\ (allowance[key].single => Yield(r, key) = 1) }
\* the count of responses that carried items, after `response`
Counted(response, key) == IF Yield(response, key) > 0 THEN outputs + 1 ELSE outputs

\* LLMAgent._score_observation_importance, in tenths
UiKeywords == <<"button", "link", "menu", "search", "input", "form", "error", "navigation">>
Words(text) == { LowerWord(text[i]) : i \in DOMAIN text }
Min(a, b) == IF a < b THEN a ELSE b
Max(a, b) == IF a > b THEN a ELSE b
\* the score without the final min(max(score, 1.0), 10.0)
score_observation_importance_unclamped(observation) ==
    LET common == Words(intent) \cap Words(observation)
        overlap == IF common # {} THEN Min(Cardinality(common) * 5, 30) ELSE 0
        ui == Cardinality({ k \in DOMAIN UiKeywords : InLower(UiKeywords[k], observation) }) * 5
    IN  50 + overlap + ui

score_observation_importance(observation) ==
    LET common == Words(intent) \cap Words(observation)
        overlap == IF common # {} THEN Min(Cardinality(common) * 5, 30) ELSE 0
        ui == Cardinality({ k \in DOMAIN UiKeywords : InLower(UiKeywords[k], observation) }) * 5
    IN  Min(Max(50 + overlap + ui, 10), 100)

\* ------------------------------------------------------ Environment Adapter
\* UniversalBrowserConnector.navigate: the page dictionary it returns has no
\* 'success' and no 'message' key, with or without an error
PageResult(url, error_message) == [url |-> url, error_message |-> error_message]
Succeeded(url, message) == [url |-> url, success |-> TRUE, message |-> message]
\* a failure dictionary that reports success
Failed_reporting_success(message) == [success |-> TRUE, message |-> message]
Failed(message) == [success |-> FALSE, message |-> message]
NoResult == [no_result |-> TRUE]

\* UniversalBrowserConnector.navigate; ok = FALSE: stagehand_page.goto raised
navigate(url, history, target, ok) ==
    IF ok THEN [result |-> PageResult(target, None), url |-> target,
                history |-> Append(history, url)]
    ELSE [result |-> PageResult(target, Str(<<"boom">>)), url |-> url,
          history |-> history]

\* a dictionary the model returned as an action, or something that is no dictionary
NotADict == [not_a_dict |-> TRUE]
IsDict(a) == "not_a_dict" \notin DOMAIN a

\* the page a click leads to: the element named like a page links to it
ClickTarget(action, url) ==
    IF Get(action, "name", "") \in Urls THEN action.name ELSE url

\* an adapter that reports every action, of whatever type, as performed
execute_action_performing_any(action, url, history, ok) ==
    [result |-> Succeeded(url, <<"Executed", "action", "successfully">>), url |-> url,
     history |-> history]

\* UniversalBrowserConnector.execute_action; ok = FALSE: the browser call raised
execute_action(action, url, history, ok) ==
    LET action_type == LowerWord(Get(action, "type", "")) IN
    CASE action_type = "navigate" ->
            navigate(url, history, Get(action, "target", ""), ok)
      [] action_type \in {"click", "input", "scroll", "submit"} ->
            IF ok
            THEN LET to == IF action_type = "click" THEN ClickTarget(action, url) ELSE url IN
                 [result |-> Succeeded(to, <<"Executed", "action", "successfully">>),
                  url |-> to,
                  history |-> IF to # url THEN Append(history, url) ELSE history]
            ELSE [result |-> Failed(<<"Action", "failed:", "boom">>), url |-> url,
                  history |-> history]
      [] action_type = "back" ->
            IF ok
            THEN LET to == IF history = <<>> THEN url ELSE history[Len(history)] IN
                 [result |-> Succeeded(to, <<"Navigated", "back">>), url |-> to,
                  history |-> IF history = <<>> THEN history
                              ELSE SubSeq(history, 1, Len(history) - 1)]
            ELSE [result |-> Failed(<<"Action", "failed:", "boom">>), url |-> url,
                  history |-> history]
      [] action_type = "wait" ->
            IF ok
            THEN [result |-> [success |-> TRUE,
                              message |-> <<"Waited", "for", Get(action, "value", "2"), "seconds">>],
                  url |-> url, history |-> history]
            ELSE [result |-> Failed(<<"Action", "failed:", "boom">>), url |-> url,
                  history |-> history]
      [] OTHER ->
            [result |-> Failed(<<"Unsupported", "action", "type:", action_type>>),
             url |-> url, history |-> history]

\* LLMAgent._describe_action (applied to a dictionary)
describe_action(action) ==
    LET action_type == LowerWord(Get(action, "type", "")) IN
    CASE action_type = "click" ->
            <<"Clicked", "on", Get(action, "name", "unknown element"), ":",
              Get(action, "description", "")>>
      [] action_type = "input" ->
            <<"Entered", "text", Get(action, "value", ""), "into",
              Get(action, "name", "unknown element")>>
      [] action_type = "scroll" ->
            <<"Scrolled", Get(action, "value", "down"), "on", "the", "page">>
      [] action_type = "navigate" ->
            <<"Navigated", "to", "URL:", Get(action, "target", "")>>
      [] action_type = "back" ->
            <<"Navigated", "back", "to", "previous", "page">>
      [] action_type = "wait" ->
            <<"Waited", "for", Get(action, "value", "2"), "seconds">>
      [] OTHER -> <<"Unknown", "action:", action_type>>

ClickAction == [type |-> "Click", name |-> "Failed-Orders", description |-> "open"]
InputAction == [type |-> "input", target |-> "search_input", value |-> "red sweater"]
NavigateAction == [type |-> "navigate", target |-> "cart"]
HoverAction == [type |-> "hover", name |-> "menu"]
\* a type execute_action performs that _describe_action does not know
SubmitAction == [type |-> "submit", name |-> "search_form"]
Actions == { ClickAction, InputAction, NavigateAction, HoverAction }

\* ----------------------------------------------------------- Session Driver
UnboundCycle == 0 - 1
Store == <<memories, clock>>
Agent == <<persona, intent>>
Loop == <<cycle, max_cycles, start_url, stopped, actions_before>>
Act == <<batch, bi>>
Slow == <<reflect_runs, wonder_runs, slow_since_fast, last_reflect_out,
          last_wonder_out, reflections, wonderings>>

\* ------------------------------------------------------------- the service
\* the simulations the service is asked to run, and the task of each request
SimulationIds == {"sim1", "sim2"}
Tasks == [sim1 |-> <<"buy", "red", "sweater">>, sim2 |-> <<"find", "blue", "jacket">>]
\* the keys POST /api/config/apikey can set
ApiKeys == {"key1", "key2"}
NoKey == "none"
\* the persona run_simulation gives every agent: api.py lines 147-156
SimPersona == << [key |-> "name:", kind |-> "str", value |-> <<"Alex">>] >>
\* an LLMAgent that is not constructed yet, and one as __init__ leaves it
NoAgent ==
    [created |-> FALSE, memory_stream |-> "none", llm_client |-> NoKey,
     persona |-> NoPersona, intent |-> NoIntent,
     current_plan |-> Str(<<>>), next_step |-> Str(<<>>)]
NewAgent(memory_stream, api_key) ==
    [NoAgent EXCEPT !.created = TRUE, !.memory_stream = memory_stream,
                    !.llm_client = api_key]
\* the state of the module api.py before any request: its dictionaries, the
\* module attribute openai.api_key, the MemoryStream objects (streams) and the
\* LLMAgent objects (agents) by handle, the position of each run_simulation
\* (at), the cycles its session has run, and the clock
NoSimulations ==
    [api_keys |-> NoKey,
     openai_api_key |-> NoKey,
     active_simulations |-> [id \in SimulationIds |-> "none"],
     at |-> [id \in SimulationIds |-> "none"],
     cycle |-> [id \in SimulationIds |-> 0],
     memory_streams |-> [id \in SimulationIds |-> "none"],
     streams |-> [h \in SimulationIds |-> <<>>],
     agents |-> [id \in SimulationIds |-> NoAgent],
     simulation_results |-> [id \in SimulationIds |-> <<>>],
     clock |-> 1]

\* no call was made on the store directly; nothing was saved
NoCall == [op |-> "none"]
NoFile == [exists |-> FALSE]

\* the objects as constructed
Constructed ==
    /\ memories = <<>>
    /\ clock = 1
    /\ persona = NoPersona
    /\ intent = NoIntent
    /\ current_plan = Str(<<>>)
    /\ next_step = Str(<<>>)
    /\ pc = "idle"
    /\ cycle = UnboundCycle
    /\ max_cycles = 0
    /\ start_url = "blank"
    /\ batch = <<>>
    /\ bi = 0
    /\ cycle_result = NoResult
    /\ browser_url = "blank"
    /\ browser_history = <<>>
    /\ dispatched = <<>>
    /\ faults = 0
    /\ outputs = 0
    /\ session_result = NoResult
    /\ error = "none"
    /\ fast_cycles = 0
    /\ stopped = "no"
    /\ actions_before = 0
    /\ reflect_runs = 0
    /\ wonder_runs = 0
    /\ slow_since_fast = <<0, 0>>
    /\ last_reflect_out = <<>>
    /\ last_wonder_out = <<>>
    /\ reflections = <<>>
    /\ wonderings = <<>>
    /\ plan_complete = FALSE
    /\ call = NoCall
    /\ returned = Returned(None)
    /\ file = NoFile
    /\ loaded = <<>>
    /\ service = NoSimulations
    /\ module_runs = NoRuns
    /\ llm_calls = 0

Init ==
    /\ Constructed
    /\ allowance = [key \in ResponseKeys |-> [responses |-> MaxOutputs, single |-> FALSE]]

\* a language model that answers the action prompt only, up to MaxActing
\* times, with the one action the prompt asks for
ActingInit ==
    /\ Constructed
    /\ allowance = [key \in ResponseKeys |->
                      [responses |-> IF key = "actions" THEN MaxActing ELSE 0,
                       single |-> TRUE]]

\* an exception leaves run_complete_session
Raise(e) == pc' = "raised" /\ error' = e

\* start_session with the navigation moved above the checks of lines 166-169
start_session_navigating_first(url, ok, fail) ==
    LET nav == navigate(browser_url, browser_history, url, ok) IN
    /\ browser_url' = nav.url
    /\ browser_history' = nav.history
    /\ dispatched' = Append(dispatched, [op |-> "navigate",
                                      target |-> [type |-> "navigate", target |-> url],
                                      result |-> nav.result,
                                      at |-> clock])
    /\ faults' = IF fail \/ ~ok THEN faults + 1 ELSE faults
    /\ IF persona = NoPersona \/ intent = NoIntent
       THEN /\ Raise("ValueError")
            /\ UNCHANGED Store
       ELSE IF fail
       THEN /\ Raise("EmbeddingError")
            /\ UNCHANGED Store
       ELSE /\ memories' = add_memory(memories, clock, "action_taken",
                                      <<"Navigated", "to", url>>, "Agent",
                                      NavigationImportance, NoMetadata)
            /\ clock' = clock + 1
            /\ pc' = "loop"
            /\ UNCHANGED error

\* LLMAgent.start_session; ok: the page loads, fail: the embedding model raises
start_session(url, ok, fail) ==
    IF persona = NoPersona \/ intent = NoIntent
    THEN /\ Raise("ValueError")
         /\ UNCHANGED <<Store, Browser, faults>>
    ELSE LET nav == navigate(browser_url, browser_history, url, ok) IN
         /\ browser_url' = nav.url
         /\ browser_history' = nav.history
         /\ dispatched' = Append(dispatched, [op |-> "navigate",
                                           target |-> [type |-> "navigate", target |-> url],
                                           result |-> nav.result,
                                      at |-> clock])
         /\ faults' = IF fail \/ ~ok THEN faults + 1 ELSE faults
         /\ IF fail
            THEN /\ Raise("EmbeddingError")
                 /\ UNCHANGED Store
            ELSE /\ memories' = add_memory(memories, clock, "action_taken",
                                           <<"Navigated", "to", url>>, "Agent",
                                           NavigationImportance, NoMetadata)
                 /\ clock' = clock + 1
                 /\ pc' = "loop"
                 /\ UNCHANGED error

\* run_complete_session is called: lines 835-836
Run ==
    /\ pc = "idle"
    /\ \E url \in StartUrls, n \in 0 .. MaxCyclesArg, ok \in BOOLEAN, fail \in MayFail :
         /\ ok \/ ~fail
         /\ ok \/ faults < MaxFaults
         /\ start_url' = url
         /\ max_cycles' = n
         /\ start_session(url, ok, fail)
    /\ UNCHANGED <<Agent, Plan, cycle, stopped, actions_before, Act, cycle_result,
                   session_result, fast_cycles, Slow, outputs>>
    /\ UNCHANGED <<plan_complete, StoreUse, service, allowance, Calls>>

\* `for cycle in range(max_cycles)`: the next round, or the end of the loop
LoopHead ==
    /\ pc = "loop"
    /\ IF cycle + 1 < max_cycles
       THEN /\ cycle' = cycle + 1
            /\ fast_cycles' = fast_cycles + 1
            /\ slow_since_fast' = <<0, 0>>
            /\ actions_before' = Len(get_memories_by_type(memories, "action_taken"))
            /\ module_runs' = NoRuns
            /\ pc' = "perceive"
            /\ UNCHANGED stopped
       ELSE /\ pc' = "final_reflect"
            /\ stopped' = "exhausted"
            /\ UNCHANGED <<cycle, fast_cycles, slow_since_fast, actions_before, module_runs>>
    /\ UNCHANGED <<Store, Agent, Plan, max_cycles, start_url, Act, cycle_result,
                   Browser, faults, outputs, session_result, error, reflect_runs,
                   wonder_runs, last_reflect_out, last_wonder_out, reflections,
                   wonderings>>
    /\ UNCHANGED <<plan_complete, StoreUse, service, allowance, llm_calls>>

\* the observations / insights / thoughts a module takes from a response:
\* the parsed list, or the fallback list when that is empty or None
ItemsOf(response, key) ==
    LET parsed == parse_json_key(response, key).value IN
    IF Falsy(parsed) THEN extract_list_items(response) ELSE parsed.v

\* _run_perception_module with run_fast_loop_cycle going on to the action
\* module when there is no response to parse
Perceive_skipping_plan ==
    /\ pc = "perceive"
    /\ module_runs' = [module_runs EXCEPT !.perceive = @ + 1]
    /\ \/ \* simplify_html raises (line 212 is outside the try)
          /\ faults < MaxFaults
          /\ faults' = faults + 1
          /\ Raise("AdapterError")
          /\ llm_calls' = 0
          /\ UNCHANGED <<Store, outputs>>
       \/ \E response \in Within(PerceiveResponses, "observations") :
            /\ outputs' = Counted(response, "observations")
            /\ llm_calls' = 1
            /\ IF response.kind = "empty" \/ parse_json_key(response, "observations").raised
               THEN /\ pc' = IF response.kind = "empty" THEN "act" ELSE "plan"
                    /\ UNCHANGED <<Store, faults, error>>
               ELSE LET observations == ItemsOf(response, "observations") IN
                    \E n \in Rounds(Len(observations)) :
                       /\ memories' = AddEach(memories, clock, "observation", observations,
                                              "PerceptionModule",
                                              [i \in DOMAIN observations |->
                                                 score_observation_importance(observations[i])],
                                              n)
                       /\ clock' = clock + n
                       /\ faults' = IF n < Len(observations) THEN faults + 1 ELSE faults
                       /\ pc' = "plan"
                       /\ UNCHANGED error
    /\ UNCHANGED <<Agent, Plan, Loop, Act, cycle_result, Browser, session_result,
                   fast_cycles, Slow>>
    /\ UNCHANGED <<plan_complete, StoreUse, service, allowance>>

\* LLMAgent._run_perception_module
Perceive ==
    /\ pc = "perceive"
    /\ module_runs' = [module_runs EXCEPT !.perceive = @ + 1]
    /\ \/ \* simplify_html raises (line 212 is outside the try)
          /\ faults < MaxFaults
          /\ faults' = faults + 1
          /\ Raise("AdapterError")
          /\ llm_calls' = 0
          /\ UNCHANGED <<Store, outputs>>
       \/ \E response \in Within(PerceiveResponses, "observations") :
            /\ outputs' = Counted(response, "observations")
            /\ llm_calls' = 1
            /\ IF response.kind = "empty" \/ parse_json_key(response, "observations").raised
               THEN /\ pc' = "plan"
                    /\ UNCHANGED <<Store, faults, error>>
               ELSE LET observations == ItemsOf(response, "observations") IN
                    \E n \in Rounds(Len(observations)) :
                       /\ memories' = AddEach(memories, clock, "observation", observations,
                                              "PerceptionModule",
                                              [i \in DOMAIN observations |->
                                                 score_observation_importance(observations[i])],
                                              n)
                       /\ clock' = clock + n
                       /\ faults' = IF n < Len(observations) THEN faults + 1 ELSE faults
                       /\ pc' = "plan"
                       /\ UNCHANGED error
    /\ UNCHANGED <<Agent, Plan, Loop, Act, cycle_result, Browser, session_result,
                   fast_cycles, Slow>>
    /\ UNCHANGED <<plan_complete, StoreUse, service, allowance>>

PlanKeys == {"rationale", "plan", "next_step"}

\* LLMAgent._run_planning_module
PlanStep ==
    /\ pc = "plan"
    /\ module_runs' = [module_runs EXCEPT !.plan = @ + 1]
    /\ \/ \* retrieve_memories raises in model.encode (lines 304-308 are outside the try)
          /\ faults < MaxFaults
          /\ memories # <<>>
          /\ faults' = faults + 1
          /\ Raise("EmbeddingError")
          /\ llm_calls' = 0
          /\ UNCHANGED <<Store, Plan, outputs, plan_complete>>
       \/ \E response \in { r \in PlanResponses : r.kind # "json" \/ outputs < allowance["plan"].responses },
             fail \in MayFail :
            LET parsed == parse_json_keys(response, PlanKeys) IN
            /\ outputs' = IF response.kind = "json" THEN outputs + 1 ELSE outputs
            /\ llm_calls' = 1
            /\ plan_complete' = (response.kind = "json" /\ PlanKeys \subseteq DOMAIN response.data)
            /\ IF response.kind = "empty" \/ parsed.raised \/ parsed.value.t = "none"
               THEN /\ ~fail
                    /\ pc' = "act"
                    /\ UNCHANGED <<Store, Plan, faults, error>>
               ELSE \* plan_result holds every key, so get's default is never used
                    /\ current_plan' = parsed.value.v["plan"]
                    /\ next_step' = parsed.value.v["next_step"]
                    /\ IF fail
                       THEN /\ faults' = faults + 1
                            /\ UNCHANGED Store
                       ELSE /\ memories' = add_memory(memories, clock, "plan_step",
                                   <<"Plan:">> \o Format(current_plan') \o
                                   <<"Next", "step:">> \o Format(next_step'),
                                   "PlanningModule", PlanImportance, NoMetadata)
                            /\ clock' = clock + 1
                            /\ UNCHANGED faults
                    /\ pc' = "act"
                    /\ UNCHANGED error
    /\ UNCHANGED <<Agent, Loop, Act, cycle_result, Browser, session_result,
                   fast_cycles, Slow>>
    /\ UNCHANGED <<StoreUse, service, allowance>>

\* the action lists the language model returns: the one action the prompt asks
\* for, or two
Batches ==
    { <<a>> : a \in Actions \cup {SubmitAction} }
    \cup { <<a, b>> : a \in Actions, b \in Actions }

ActResponses ==
    { EmptyResponse, ArrayResponse, TextResponse(<<>>),
      JsonResponse([actions |-> List(<<>>)]),
      JsonResponse([action |-> List(<<InputAction>>)]),
      JsonResponse([actions |-> List(<<NotADict>>)]) }
    \cup { JsonResponse([actions |-> List(b)]) : b \in Batches }

\* line 845 without `cycle > 0`: the slow loop runs in the first cycle as well
AfterFastLoop_from_first_cycle ==
    IF cycle % SlowLoopPeriod = 0 THEN "slow_reflect" ELSE "check"

\* where run_complete_session goes after run_fast_loop_cycle: lines 844-850
AfterFastLoop ==
    IF cycle > 0 /\ cycle % SlowLoopPeriod = 0 THEN "slow_reflect" ELSE "check"

\* the except branch of _run_action_module: lines 440-442
ActionError == Failed(<<"Error:", "exception">>)

\* _run_action_module returns `result` to run_fast_loop_cycle, which returns
\* it to run_complete_session; batch and bi are locals of the module
ReturnFromAct(result) ==
    /\ cycle_result' = result
    /\ batch' = <<>>
    /\ bi' = 0
    /\ pc' = AfterFastLoop

\* LLMAgent._run_action_module up to the parsed action list: lines 385-411
ActBegin ==
    /\ pc = "act"
    /\ module_runs' = [module_runs EXCEPT !.act = @ + 1]
    /\ \/ \* simplify_html or retrieve_memories raises (lines 388-395 are outside the try)
          /\ faults < MaxFaults
          /\ faults' = faults + 1
          /\ \E e \in {"AdapterError", "EmbeddingError"} : Raise(e)
          /\ llm_calls' = 0
          /\ UNCHANGED <<Act, cycle_result, outputs>>
       \/ \E response \in Within(ActResponses, "actions") :
            LET parsed == parse_json_key(response, "actions") IN
            /\ outputs' = Counted(response, "actions")
            /\ llm_calls' = 1
            /\ UNCHANGED <<faults, error>>
            /\ IF response.kind = "empty"
               THEN ReturnFromAct(Failed(<<"Failed", "to", "generate", "action">>))
               ELSE IF parsed.raised
               THEN ReturnFromAct(ActionError)
               ELSE IF Falsy(parsed.value) \/ parsed.value.t # "list"
               THEN ReturnFromAct(Failed(<<"Failed", "to", "parse", "action", "response">>))
               ELSE /\ batch' = parsed.value.v
                    /\ bi' = 1
                    /\ pc' = "act_log"
                    /\ UNCHANGED cycle_result
    /\ UNCHANGED <<Store, Agent, Plan, Loop, Browser, session_result, fast_cycles, Slow>>
    /\ UNCHANGED <<plan_complete, StoreUse, service, allowance>>

\* the round with the add_memory of lines 416-423 left out
ActLog_without_record ==
    /\ pc = "act_log"
    /\ IF ~IsDict(batch[bi])
       THEN ReturnFromAct(ActionError)
       ELSE pc' = "act_exec" /\ UNCHANGED <<cycle_result, Act>>
    /\ UNCHANGED <<Store, faults, Agent, Plan, Loop, Browser, session_result, error,
                   fast_cycles, Slow, outputs>>
    /\ UNCHANGED <<plan_complete, StoreUse, service, allowance, Calls>>

\* one round of `for action in action_result`, up to the call of execute_action:
\* lines 414-423
ActLog ==
    /\ pc = "act_log"
    /\ \E fail \in MayFail :
         IF ~IsDict(batch[bi])
         THEN \* _describe_action raises AttributeError, caught at line 440
              /\ ~fail
              /\ ReturnFromAct(ActionError)
              /\ UNCHANGED <<Store, faults>>
         ELSE IF fail
         THEN /\ faults' = faults + 1
              /\ ReturnFromAct(ActionError)
              /\ UNCHANGED Store
         ELSE /\ memories' = add_memory(memories, clock, "action_taken",
                                        describe_action(batch[bi]), "ActionModule",
                                        ActionImportance, batch[bi])
              /\ clock' = clock + 1
              /\ pc' = "act_exec"
              /\ UNCHANGED <<faults, cycle_result, Act>>
    /\ UNCHANGED <<Agent, Plan, Loop, Browser, session_result, error,
                   fast_cycles, Slow, outputs>>
    /\ UNCHANGED <<plan_complete, StoreUse, service, allowance, Calls>>

\* the rest of the round without the `return result` of line 436: a failed
\* action is recorded and the loop goes on to the next action
ActExecute_without_return ==
    /\ pc = "act_exec"
    /\ \E ok \in BOOLEAN, fail \in MayFail :
         LET done == execute_action(batch[bi], browser_url, browser_history, ok)
             failed == ~Get(done.result, "success", FALSE)
         IN
         /\ dispatched' = Append(dispatched, [op |-> "execute_action", target |-> batch[bi],
                                           result |-> done.result,
                                           at |-> clock])
         /\ browser_url' = done.url
         /\ browser_history' = done.history
         /\ fail => failed
         /\ faults' = IF fail THEN faults + 1 ELSE faults
         /\ IF fail
            THEN ReturnFromAct(ActionError) /\ UNCHANGED Store
            ELSE /\ IF failed
                    THEN /\ memories' = add_memory(memories, clock, "action_taken",
                                <<"Action", "failed:">> \o
                                Get(done.result, "message", <<"Unknown", "error">>),
                                "ActionModule", FailureImportance, NoMetadata)
                         /\ clock' = clock + 1
                    ELSE UNCHANGED Store
                 /\ IF bi < Len(batch)
                    THEN /\ bi' = bi + 1
                         /\ pc' = "act_log"
                         /\ cycle_result' = done.result
                         /\ UNCHANGED batch
                    ELSE ReturnFromAct(done.result)
    /\ UNCHANGED <<Agent, Plan, Loop, session_result, error, fast_cycles, Slow,
                   outputs>>
    /\ UNCHANGED <<plan_complete, StoreUse, service, allowance, Calls>>

\* the rest of the round: execute_action and the handling of its result,
\* lines 425-438; until the module returns, cycle_result holds its local `result`
ActExecute ==
    /\ pc = "act_exec"
    /\ \E ok \in BOOLEAN, fail \in MayFail :
         LET done == execute_action(batch[bi], browser_url, browser_history, ok) IN
         /\ dispatched' = Append(dispatched, [op |-> "execute_action", target |-> batch[bi],
                                           result |-> done.result,
                                           at |-> clock])
         /\ browser_url' = done.url
         /\ browser_history' = done.history
         /\ IF ~Get(done.result, "success", FALSE)
            THEN IF fail
                 THEN /\ faults' = faults + 1
                      /\ ReturnFromAct(ActionError)
                      /\ UNCHANGED Store
                 ELSE /\ memories' = add_memory(memories, clock, "action_taken",
                             <<"Action", "failed:">> \o
                             Get(done.result, "message", <<"Unknown", "error">>),
                             "ActionModule", FailureImportance, NoMetadata)
                      /\ clock' = clock + 1
                      /\ ReturnFromAct(done.result)
                      /\ UNCHANGED faults
            ELSE /\ ~fail
                 /\ UNCHANGED <<Store, faults>>
                 /\ IF bi < Len(batch)
                    THEN /\ bi' = bi + 1
                         /\ pc' = "act_log"
                         /\ cycle_result' = done.result
                         /\ UNCHANGED batch
                    ELSE ReturnFromAct(done.result)
    /\ UNCHANGED <<Agent, Plan, Loop, session_result, error, fast_cycles, Slow,
                   outputs>>
    /\ UNCHANGED <<plan_complete, StoreUse, service, allowance, Calls>>

\* run_reflection_module asking the language model a second time when the
\* first call gave nothing
run_reflection_module_retrying ==
    /\ reflect_runs' = reflect_runs + 1
    /\ \E first \in {EmptyResponse} \cup ReflectResponses,
          response \in Within(ReflectResponses, "insights") :
         /\ first.kind # "empty" => response = first
         /\ llm_calls' = IF first.kind = "empty" THEN 2 ELSE 1
         /\ outputs' = Counted(response, "insights")
         /\ IF response.kind = "empty" \/ parse_json_key(response, "insights").raised
            THEN /\ last_reflect_out' = <<>>
                 /\ UNCHANGED <<Store, faults>>
            ELSE LET items == ItemsOf(response, "insights") IN
                 \E n \in Rounds(Len(items)) :
                    /\ memories' = AddEach(memories, clock, "reflection", items,
                                           "ReflectionModule",
                                           Each(items, ReflectionImportance), n)
                    /\ clock' = clock + n
                    /\ faults' = IF n < Len(items) THEN faults + 1 ELSE faults
                    /\ last_reflect_out' = IF n < Len(items) THEN <<>> ELSE items

\* LLMAgent.run_reflection_module; its return value is last_reflect_out'
run_reflection_module ==
    /\ reflect_runs' = reflect_runs + 1
    /\ llm_calls' = 1
    /\ \E response \in Within(ReflectResponses, "insights") :
         /\ outputs' = Counted(response, "insights")
         /\ IF response.kind = "empty" \/ parse_json_key(response, "insights").raised
            THEN /\ last_reflect_out' = <<>>
                 /\ UNCHANGED <<Store, faults>>
            ELSE LET items == ItemsOf(response, "insights") IN
                 \E n \in Rounds(Len(items)) :
                    /\ memories' = AddEach(memories, clock, "reflection", items,
                                           "ReflectionModule",
                                           Each(items, ReflectionImportance), n)
                    /\ clock' = clock + n
                    /\ faults' = IF n < Len(items) THEN faults + 1 ELSE faults
                    /\ last_reflect_out' = IF n < Len(items) THEN <<>> ELSE items

\* LLMAgent.run_wonder_module; its return value is last_wonder_out'
run_wonder_module ==
    /\ wonder_runs' = wonder_runs + 1
    /\ llm_calls' = 1
    /\ \E response \in Within(WonderResponses, "thoughts") :
         /\ outputs' = Counted(response, "thoughts")
         /\ IF response.kind = "empty" \/ parse_json_key(response, "thoughts").raised
            THEN /\ last_wonder_out' = <<>>
                 /\ UNCHANGED <<Store, faults>>
            ELSE LET items == ItemsOf(response, "thoughts") IN
                 \E n \in Rounds(Len(items)) :
                    /\ memories' = AddEach(memories, clock, "wonder", items,
                                           "WonderModule",
                                           Each(items, WonderImportance), n)
                    /\ clock' = clock + n
                    /\ faults' = IF n < Len(items) THEN faults + 1 ELSE faults
                    /\ last_wonder_out' = IF n < Len(items) THEN <<>> ELSE items

Fast == <<Agent, Plan, Loop, Act, cycle_result, Browser, session_result, error,
          fast_cycles>>

\* lines 845-846
SlowReflect ==
    /\ pc = "slow_reflect"
    /\ run_reflection_module
    /\ slow_since_fast' = <<slow_since_fast[1] + 1, slow_since_fast[2]>>
    /\ pc' = "slow_wonder"
    /\ UNCHANGED <<Fast, wonder_runs, last_wonder_out, reflections, wonderings>>
    /\ UNCHANGED <<plan_complete, StoreUse, service, allowance, module_runs>>

\* line 847
SlowWonder ==
    /\ pc = "slow_wonder"
    /\ run_wonder_module
    /\ slow_since_fast' = <<slow_since_fast[1], slow_since_fast[2] + 1>>
    /\ pc' = "check"
    /\ UNCHANGED <<Fast, reflect_runs, last_reflect_out, reflections, wonderings>>
    /\ UNCHANGED <<plan_complete, StoreUse, service, allowance, module_runs>>

\* _is_task_completed without the .lower() of line 901
is_task_completed_as_written(mems) ==
    LET found == get_memories_by_type(mems, "reflection") IN
    \E i \in DOMAIN found :
        /\ \E j \in DOMAIN found[i].content : found[i].content[j] \in WordsWith("completed")
        /\ \E j \in DOMAIN found[i].content : found[i].content[j] \in WordsWith("task")

\* LLMAgent._is_task_completed
is_task_completed(mems) ==
    LET found == get_memories_by_type(mems, "reflection") IN
    \E i \in DOMAIN found :
        InLower("completed", found[i].content) /\ InLower("task", found[i].content)

\* _should_terminate_session without the sort of line 878: the window is the
\* oldest action_taken records
should_terminate_session_oldest_first(mems) ==
    \/ is_task_completed(mems)
    \/ LET recent_actions == get_memories_by_type(mems, "action_taken")
           window == Take(recent_actions, FailureWindow)
           failure_count == Cardinality({ i \in DOMAIN window :
                                            InLower("failed", window[i].content) })
       IN  Len(recent_actions) >= FailureWindow /\ failure_count >= FailureThreshold

\* _should_terminate_session asking for more than FailureThreshold failures
should_terminate_session_above_threshold(mems) ==
    \/ is_task_completed(mems)
    \/ LET recent_actions == SortByTimestampDesc(get_memories_by_type(mems, "action_taken"))
           window == Take(recent_actions, FailureWindow)
           failure_count == Cardinality({ i \in DOMAIN window :
                                            InLower("failed", window[i].content) })
       IN  Len(recent_actions) >= FailureWindow /\ failure_count > FailureThreshold

\* LLMAgent._should_terminate_session
should_terminate_session(mems) ==
    \/ is_task_completed(mems)
    \/ LET recent_actions == SortByTimestampDesc(get_memories_by_type(mems, "action_taken"))
           window == Take(recent_actions, FailureWindow)
           failure_count == Cardinality({ i \in DOMAIN window :
                                            InLower("failed", window[i].content) })
       IN  Len(recent_actions) >= FailureWindow /\ failure_count >= FailureThreshold

\* lines 849-851 with the break leaving run_complete_session's tail out as well
Check_skipping_final ==
    /\ pc = "check"
    /\ IF should_terminate_session(memories)
       THEN pc' = "return" /\ stopped' = "break"
       ELSE pc' = "loop" /\ UNCHANGED stopped
    /\ cycle_result' = NoResult
    /\ last_reflect_out' = <<>>
    /\ last_wonder_out' = <<>>
    /\ UNCHANGED <<Store, Agent, Plan, cycle, max_cycles, start_url, actions_before,
                   Act, Browser, faults, outputs, session_result, error,
                   fast_cycles, reflect_runs, wonder_runs, slow_since_fast,
                   reflections, wonderings>>
    /\ UNCHANGED <<plan_complete, StoreUse, service, allowance, Calls>>

\* lines 849-851.  The values returned by the fast loop and by the slow loop of
\* this round are never read after this point and are dropped here.
Check ==
    /\ pc = "check"
    /\ IF should_terminate_session(memories)
       THEN pc' = "final_reflect" /\ stopped' = "break"
       ELSE pc' = "loop" /\ UNCHANGED stopped
    /\ cycle_result' = NoResult
    /\ last_reflect_out' = <<>>
    /\ last_wonder_out' = <<>>
    /\ UNCHANGED <<Store, Agent, Plan, cycle, max_cycles, start_url, actions_before,
                   Act, Browser, faults, outputs, session_result, error,
                   fast_cycles, reflect_runs, wonder_runs, slow_since_fast,
                   reflections, wonderings>>
    /\ UNCHANGED <<plan_complete, StoreUse, service, allowance, Calls>>

\* line 854
FinalReflect ==
    /\ pc = "final_reflect"
    /\ run_reflection_module
    /\ reflections' = last_reflect_out'
    /\ slow_since_fast' = <<slow_since_fast[1] + 1, slow_since_fast[2]>>
    /\ pc' = "final_wonder"
    /\ UNCHANGED <<Fast, wonder_runs, last_wonder_out, wonderings>>
    /\ UNCHANGED <<plan_complete, StoreUse, service, allowance, module_runs>>

\* line 855
FinalWonder ==
    /\ pc = "final_wonder"
    /\ run_wonder_module
    /\ wonderings' = last_wonder_out'
    /\ slow_since_fast' = <<slow_since_fast[1], slow_since_fast[2] + 1>>
    /\ pc' = "return"
    /\ UNCHANGED <<Fast, reflect_runs, last_reflect_out, reflections>>
    /\ UNCHANGED <<plan_complete, StoreUse, service, allowance, module_runs>>

\* the dictionary with task_completed taken from the termination check
SessionResult_from_termination ==
    [url |-> start_url, cycles_completed |-> cycle + 1,
     task_completed |-> should_terminate_session(memories),
     reflections |-> reflections, wonderings |-> wonderings]

\* the dictionary built at lines 858-865 (its 'memories' entry is the ledger itself)
SessionResult ==
    [url |-> start_url, cycles_completed |-> cycle + 1,
     task_completed |-> is_task_completed(memories),
     reflections |-> reflections, wonderings |-> wonderings]

\* lines 857-865; `cycle` is unbound when the loop body never ran
Return ==
    /\ pc = "return"
    /\ IF cycle = UnboundCycle
       THEN Raise("UnboundLocalError") /\ UNCHANGED session_result
       ELSE pc' = "done" /\ session_result' = SessionResult /\ UNCHANGED error
    /\ UNCHANGED <<Store, Agent, Plan, Loop, Act, cycle_result, Browser, faults,
                   outputs, fast_cycles, Slow>>
    /\ UNCHANGED <<plan_complete, StoreUse, service, allowance, Calls>>

Next ==
    \/ set_persona
    \/ set_intent
    \/ Run
    \/ LoopHead
    \/ Perceive
    \/ PlanStep
    \/ ActBegin
    \/ ActLog
    \/ ActExecute
    \/ SlowReflect
    \/ SlowWonder
    \/ Check
    \/ FinalReflect
    \/ FinalWonder
    \/ Return

Spec == Init /\ [][Next]_vars

\* ------------------------------------------------- Memory Store: retrieval
\* Times are counted in hours, scores in hundredths, weights in hundredths.
Num(n) == [t |-> "num", v |-> n]
IsNone(x) == "t" \in DOMAIN x /\ x.t = "none"
\* importance_score=None, as add_memory stores it when the caller gives none
NoneScore == 0 - 1
\* an exception of the named type leaves the call
Raises(e) == [raised |-> TRUE, error |-> e]

\* a weights dictionary: the keys it has, and their values
Dict(keys, values) == [t |-> "dict", keys |-> keys, v |-> values]
WeightKeys == {"importance", "relevance", "recency", "type_weights"}
\* the defaults of retrieve_memories, lines 101-115
DefaultWeights ==
    Dict(WeightKeys,
         [importance |-> 30, relevance |-> 40, recency |-> 30,
          type_weights |-> [observation |-> 100, action_taken |-> 100, plan_step |-> 100,
                            reflection |-> 100, wonder |-> 70, persona_detail |-> 120,
                            intent |-> 150]])

RECURSIVE DotUpTo(_, _, _)
DotUpTo(a, b, k) == IF k = 0 THEN 0 ELSE DotUpTo(a, b, k - 1) + a[k] * b[k]
Dot(a, b) == DotUpTo(a, b, Len(a))
\* the integer part of the square root, for x up to (100 * Len(Vocabulary))^2
IntSqrt(x) ==
    CHOOSE r \in 0 .. 100 * Len(Vocabulary) : r * r <= x /\ (r + 1) * (r + 1) > x
\* 100 * sqrt(n) for the products n of two squared norms
Root == [n \in 1 .. Len(Vocabulary) * Len(Vocabulary) |-> IntSqrt(n * 10000)]
\* sklearn's cosine_similarity of two vectors (0 when one of them is zero)
cosine_similarity(a, b) ==
    LET n == Dot(a, a) * Dot(b, b) IN
    IF n = 0 THEN 0 ELSE (Dot(a, b) * 10000) \div Root[n]

\* 1.0 / math.exp(h) for h = 0, 1, 2, ... hours
Decay == <<100, 37, 14, 5, 2, 1>>
\* line 128
recency_score(current_time, timestamp) ==
    LET time_diff == Max(0, current_time - timestamp) IN
    IF time_diff < Len(Decay) THEN Decay[time_diff + 1] ELSE 0

\* lines 124-142 for one record: its final_score, or the exception raised
\* while it is computed
final_score(memory, query_embedding, current_time, weights) ==
    LET relevance == cosine_similarity(query_embedding, memory.embedding)
        recency == recency_score(current_time, memory.timestamp)
        importance == Get(memory, "importance_score", 50)
    IN  IF "type_weights" \notin weights.keys THEN Raises("KeyError")
        ELSE IF importance = NoneScore THEN Raises("TypeError")
        ELSE IF {"importance", "relevance", "recency"} \ weights.keys # {}
        THEN Raises("KeyError")
        ELSE Returned((importance * weights.v.importance + relevance * weights.v.relevance
                       + recency * weights.v.recency)
                      * Get(weights.v.type_weights, memory.type, 100))

\* scored_memories.sort(reverse=True) on (final_score, memory) pairs: two pairs
\* with the same score are ordered by comparing the memories, which are
\* dictionaries, and that raises TypeError
SortFails(scores) ==
    \E i, j \in DOMAIN scores : i < j /\ scores[i].value = scores[j].value
\* the position of record i in the sorted list, when no two scores are equal
Rank(scores, i) == 1 + Cardinality({ j \in DOMAIN scores : scores[j].value > scores[i].value })

\* retrieve_memories from line 97 on: the store is not empty.  ok = FALSE: the
\* embedding model raises on the query
ranked_memories(mems, clk, query_text, current_time, num_memories, weights, ok) ==
    LET now == IF IsNone(current_time) THEN clk ELSE current_time.v
        w == IF IsNone(weights) THEN DefaultWeights ELSE weights
    IN  IF ~ok THEN Raises("EmbeddingError")
        ELSE LET scores == [i \in DOMAIN mems |->
                              final_score(mems[i], encode(query_text), now, w)]
                 failing == { i \in DOMAIN mems : scores[i].raised }
             IN  IF failing # {}
                 THEN scores[CHOOSE i \in failing : \A j \in failing : i <= j]
                 ELSE IF SortFails(scores) THEN Raises("TypeError")
                 ELSE Returned([k \in 1 .. Min(num_memories, Len(mems)) |->
                                  mems[CHOOSE i \in DOMAIN mems : Rank(scores, i) = k]])

\* retrieve_memories with the query embedded before the store is looked at
retrieve_memories_embedding_first(mems, clk, query_text, current_time, num_memories, weights, ok) ==
    IF ~ok THEN Raises("EmbeddingError")
    ELSE IF mems = <<>> THEN Returned(<<>>)
    ELSE ranked_memories(mems, clk, query_text, current_time, num_memories, weights, ok)

\* MemoryStream.retrieve_memories
retrieve_memories(mems, clk, query_text, current_time, num_memories, weights, ok) ==
    IF mems = <<>> THEN Returned(<<>>)
    ELSE ranked_memories(mems, clk, query_text, current_time, num_memories, weights, ok)

\* ---------------------------------------------- Memory Store: direct clients
\* a client appends up to MaxStore records
MaxStore == 3
\* what a client appends: type, content and importance (NoneScore: not given)
StoreRecords ==
    { [type |-> "intent", content |-> <<"buy", "a", "red", "sweater">>, importance |-> 100],
      [type |-> "observation", content |-> <<"red", "sweater", "$24.90">>, importance |-> 60],
      [type |-> "observation", content |-> <<"blue", "jacket", "$80">>, importance |-> 60],
      [type |-> "observation", content |-> <<"blue", "jacket", "$80">>, importance |-> NoneScore] }
Queries == { <<"red", "sweater">>, <<"checkout">> }
\* current_time: absent, or a time before every record
Times == { None, Num(0) }
Limits == { 1, 5 }
\* a configuration that ranks by importance and relevance only
FlatWeights ==
    Dict(WeightKeys, [importance |-> 50, relevance |-> 50, recency |-> 0,
                      type_weights |-> [intent |-> 150]])
WeightConfigs ==
    { None, FlatWeights, Dict({}, DefaultWeights.v) }
    \cup { Dict(WeightKeys \ {k}, DefaultWeights.v) : k \in WeightKeys }

\* what a direct call on the store leaves alone: the agent, its driver and
\* the service
Driver == <<Agent, Plan, Session, Browser, outputs, plan_complete, service, allowance, Calls>>

\* json.dump and json.load: the JSON values a record is written as
JsonNull == [j |-> "null"]
JsonNumber(n) == [j |-> "number", v |-> n]
JsonString(x) == [j |-> "string", v |-> x]
JsonArray(items) == [j |-> "array", v |-> items]
JsonObject(members) == [j |-> "object", v |-> members]

\* Python value -> JSON value, for the fields of a record
dump_score(x) == IF x = NoneScore THEN JsonNull ELSE JsonNumber(x)
dump_vector(e) == JsonArray([k \in DOMAIN e |-> JsonNumber(e[k])])
\* the record written without its embedding
dump_record_without_embedding(m) ==
    JsonObject([id |-> JsonString(m.id), type |-> JsonString(m.type),
                content |-> JsonString(m.content), timestamp |-> JsonNumber(m.timestamp),
                source_module |-> JsonString(m.source_module),
                importance_score |-> dump_score(m.importance_score),
                metadata |-> JsonObject(m.metadata)])

dump_record(m) ==
    JsonObject([id |-> JsonString(m.id), type |-> JsonString(m.type),
                content |-> JsonString(m.content), timestamp |-> JsonNumber(m.timestamp),
                source_module |-> JsonString(m.source_module),
                embedding |-> dump_vector(m.embedding),
                importance_score |-> dump_score(m.importance_score),
                metadata |-> JsonObject(m.metadata)])
\* json.dump(self.memories, f), line 166
json_dump(mems) == JsonArray([i \in DOMAIN mems |-> dump_record(mems[i])])

\* JSON value -> Python value
load_value(x) ==
    CASE x.j = "null" -> NoneScore
      [] x.j = "array" -> [k \in DOMAIN x.v |-> x.v[k].v]
      [] OTHER -> x.v
load_record(x) == [f \in DOMAIN x.v |-> load_value(x.v[f])]
\* json.load(f), line 174
json_load(text) == [i \in DOMAIN text.v |-> load_record(text.v[i])]

\* add_memory with the record put in the ledger before its text is embedded
StoreAppend_storing_first ==
    /\ Len(memories) < MaxStore
    /\ \E r \in StoreRecords, fail \in MayFail :
         /\ call' = [op |-> "add_memory", args |-> r]
         /\ memories' = add_memory(memories, clock, r.type, r.content, "Client",
                                   r.importance, NoMetadata)
         /\ clock' = clock + 1
         /\ returned' = IF fail THEN Raises("EmbeddingError") ELSE Returned(Num(clock))
         /\ faults' = IF fail THEN faults + 1 ELSE faults
    /\ UNCHANGED <<Driver, file, loaded>>

\* a client calls add_memory; fail: the embedding model raises
StoreAppend ==
    /\ Len(memories) < MaxStore
    /\ \E r \in StoreRecords, fail \in MayFail :
         /\ call' = [op |-> "add_memory", args |-> r]
         /\ IF fail
            THEN /\ returned' = Raises("EmbeddingError")
                 /\ faults' = faults + 1
                 /\ UNCHANGED Store
            ELSE /\ memories' = add_memory(memories, clock, r.type, r.content, "Client",
                                           r.importance, NoMetadata)
                 /\ clock' = clock + 1
                 /\ returned' = Returned(Num(clock))
                 /\ UNCHANGED faults
    /\ UNCHANGED <<Driver, file, loaded>>

\* retrieve_memories keeping only the records it returns (self.memories is
\* replaced by the sorted, cut list)
StoreRetrieve_keeping_result ==
    /\ call.op # "retrieve_memories"
    /\ \E q \in Queries, t \in Times, n \in Limits, w \in WeightConfigs, fail \in MayFail :
         /\ call' = [op |-> "retrieve_memories", repeat |-> FALSE,
                     args |-> [query_text |-> q, current_time |-> t, num_memories |-> n,
                               weights |-> w, ok |-> ~fail]]
         /\ returned' = retrieve_memories(memories, clock, q, t, n, w, ~fail)
         /\ memories' = IF returned'.raised THEN memories ELSE returned'.value
         /\ faults' = IF fail /\ memories # <<>> THEN faults + 1 ELSE faults
    /\ UNCHANGED <<clock, Driver, file, loaded>>

\* a client calls retrieve_memories; fail: the embedding model is down.  A call
\* that follows another retrieve_memories call is StoreRetrieveAgain.
StoreRetrieve ==
    /\ call.op # "retrieve_memories"
    /\ \E q \in Queries, t \in Times, n \in Limits, w \in WeightConfigs, fail \in MayFail :
         /\ call' = [op |-> "retrieve_memories", repeat |-> FALSE,
                     args |-> [query_text |-> q, current_time |-> t, num_memories |-> n,
                               weights |-> w, ok |-> ~fail]]
         /\ returned' = retrieve_memories(memories, clock, q, t, n, w, ~fail)
         /\ faults' = IF fail /\ memories # <<>> THEN faults + 1 ELSE faults
    /\ UNCHANGED <<Store, Driver, file, loaded>>

\* a client calls save_to_file
StoreSave ==
    /\ call' = [op |-> "save_to_file", args |-> None]
    /\ file' = [exists |-> TRUE, text |-> json_dump(memories)]
    /\ returned' = Returned(None)
    /\ UNCHANGED <<Store, Driver, faults, loaded>>

\* a client calls load_from_file
StoreLoad ==
    /\ call' = [op |-> "load_from_file", args |-> None]
    /\ loaded' = IF file.exists THEN json_load(file.text) ELSE <<>>
    /\ returned' = Returned(None)
    /\ UNCHANGED <<Store, Driver, faults, file>>

\* the client repeats its retrieve_memories call with the same arguments, the
\* embedding model being in the state it was in
StoreRetrieveAgain ==
    /\ call.op = "retrieve_memories"
    /\ ~call.repeat
    /\ call' = [call EXCEPT !.repeat = TRUE]
    /\ returned' = retrieve_memories(memories, clock, call.args.query_text,
                                     call.args.current_time, call.args.num_memories,
                                     call.args.weights, call.args.ok)
    /\ UNCHANGED <<Store, Driver, faults, file, loaded>>

StoreNext ==
    \/ StoreAppend
    \/ StoreRetrieve
    \/ StoreRetrieveAgain

\* a MemoryStream appended to and queried by a client
StoreSpec == Init /\ [][StoreNext]_vars

PersistNext ==
    \/ StoreAppend
    \/ StoreSave
    \/ StoreLoad

\* a MemoryStream appended to, saved and loaded by a client
PersistSpec == Init /\ [][PersistNext]_vars

\* ------------------------------------------- the scoring of observations
\* intents and observation texts for the perception module run on its own
LongIntent == <<"buy", "a", "warm", "red", "wool", "sweater", "in", "size", "medium">>
ScoreIntents == { <<"buy", "red", "sweater">>, LongIntent }
ObservationTexts ==
    { Observation1, Observation2, LongIntent,
      <<"Search", "button", "link", "menu", "input", "form", "error", "navigation">>,
      <<"button", "link", "menu", "search", "input", "form", "error", "navigation",
        "buy", "red", "sweater">> }

\* LLMAgent.set_intent by a caller that then runs the perception module itself
ScoreSetIntent ==
    /\ pc = "idle"
    /\ intent = NoIntent
    /\ memories = <<>>
    /\ \E i \in ScoreIntents :
         /\ intent' = i
         /\ memories' = add_memory(memories, clock, "intent",
                                   <<"My", "goal", "is", "to:">> \o i,
                                   "IntentLoader", IntentImportance, NoMetadata)
    /\ clock' = clock + 1
    /\ pc' = "scoring"
    /\ UNCHANGED <<persona, Plan, Loop, Act, cycle_result, session_result, error,
                   fast_cycles, Slow, Browser, faults, outputs>>
    /\ UNCHANGED <<plan_complete, StoreUse, service, allowance, Calls>>

\* one round of the loop of _run_perception_module, lines 232-241: the
\* observation is scored and appended
ScorePerceive ==
    /\ pc = "scoring"
    /\ Len(memories) < MaxStore
    /\ \E observation \in ObservationTexts :
         memories' = add_memory(memories, clock, "observation", observation,
                                "PerceptionModule",
                                score_observation_importance(observation), NoMetadata)
    /\ clock' = clock + 1
    /\ UNCHANGED <<Agent, Plan, Session, Browser, faults, outputs>>
    /\ UNCHANGED <<plan_complete, StoreUse, service, allowance, Calls>>

ScoreNext ==
    \/ Next
    \/ ScoreSetIntent
    \/ ScorePerceive

\* run_complete_session is called without max_cycles: lines 824, 835-836
RunDefault ==
    /\ pc = "idle"
    /\ \E url \in StartUrls, ok \in BOOLEAN, fail \in MayFail :
         /\ ok \/ ~fail
         /\ ok \/ faults < MaxFaults
         /\ start_url' = url
         /\ max_cycles' = DefaultMaxCycles
         /\ start_session(url, ok, fail)
    /\ UNCHANGED <<Agent, Plan, cycle, stopped, actions_before, Act, cycle_result,
                   session_result, fast_cycles, Slow, outputs>>
    /\ UNCHANGED <<plan_complete, StoreUse, service, allowance, Calls>>

\* a language model that answers the action prompt, with one action, and the
\* reflection prompt, up to MaxOutputs times in all
LongInit ==
    /\ Constructed
    /\ allowance = [key \in ResponseKeys |->
                      [responses |-> IF key \in {"actions", "insights"} THEN MaxOutputs ELSE 0,
                       single |-> TRUE]]

LongNext ==
    \/ set_persona
    \/ set_intent
    \/ RunDefault
    \/ LoopHead
    \/ Perceive
    \/ PlanStep
    \/ ActBegin
    \/ ActLog
    \/ ActExecute
    \/ SlowReflect
    \/ SlowWonder
    \/ Check
    \/ FinalReflect
    \/ FinalWonder
    \/ Return

\* sessions of the default length
LongSpec == LongInit /\ [][LongNext]_vars

\* sessions with a language model that answers the action prompt only
ActingSpec == ActingInit /\ [][Next]_vars

\* sessions, and the perception scoring run on its own
ScoreSpec == Init /\ [][ScoreNext]_vars

\* ------------------------------------------------------- the service: api.py
\* cycles of a simulation's session (request.maxCycles)
SimCycles == 2
\* the key in the environment variable OPENAI_API_KEY, if any
EnvKeys == {NoKey, "envkey"}
\* what the single agent and the store client of the other specifications hold
Single ==
    <<Store, Agent, Plan, Session, Browser, faults, outputs, plan_complete, StoreUse, Calls,
      allowance>>

\* one MemoryStream object shared by all simulations
shared_memory_stream(id) == "sim1"

\* MemoryStream() in run_simulation: a new object for each simulation
new_memory_stream(id) == id

\* the ledger of the MemoryStream registered for simulation id
LedgerOf(sv, id) ==
    IF sv.memory_streams[id] = "none" THEN <<>> ELSE sv.streams[sv.memory_streams[id]]
\* the agent of simulation id calls self.memory_stream.add_memory
SimAppend(sv, id, memory_type, content, source_module, importance_score) ==
    LET h == sv.agents[id].memory_stream IN
    [sv EXCEPT !.streams[h] = add_memory(@, sv.clock, memory_type, content, source_module,
                                         importance_score, NoMetadata),
               !.clock = @ + 1]

\* POST /api/config/apikey
set_api_key ==
    /\ \E k \in ApiKeys \ {service.api_keys} : service' = [service EXCEPT !.api_keys = k]
    /\ UNCHANGED Single

\* POST /api/simulations/start: the record is created and run_simulation queued
start_simulation(id) ==
    /\ service.at[id] = "none"
    /\ service' = [service EXCEPT !.active_simulations[id] = "starting",
                                  !.at[id] = "queued"]
    /\ UNCHANGED Single

\* run_simulation up to the agent: lines 141-166
SimCreateStore(id) ==
    /\ service.at[id] = "queued"
    /\ service' = [service EXCEPT !.active_simulations[id] = "creating_agent",
                                  !.memory_streams[id] = new_memory_stream(id),
                                  !.at[id] = "agent"]
    /\ UNCHANGED Single

\* LLMAgent(...) at lines 171-176 of api.py: __init__ of llm_agent.py, lines
\* 36-60.  Without a key the constructor raises and run_simulation marks the
\* simulation failed (lines 236-239).
SimCreateAgent(id) ==
    /\ service.at[id] = "agent"
    /\ \E env \in EnvKeys :
         LET api_key == service.api_keys
             key == IF api_key # NoKey THEN api_key ELSE env
         IN  service' =
               IF key = NoKey
               THEN [service EXCEPT !.active_simulations[id] = "failed", !.at[id] = "ended"]
               ELSE [service EXCEPT
                       !.openai_api_key = IF api_key # NoKey THEN api_key ELSE @,
                       !.agents[id] = NewAgent(service.memory_streams[id], key),
                       !.at[id] = "persona"]
    /\ UNCHANGED Single

\* agent.set_persona(persona): api.py line 179
SimSetPersona(id) ==
    /\ service.at[id] = "persona"
    /\ LET details == PersonaDetails(SimPersona)
           h == service.agents[id].memory_stream
       IN  service' = [service EXCEPT
                        !.agents[id].persona = SimPersona,
                        !.streams[h] = AddEach(@, service.clock, "persona_detail", details,
                                               "PersonaLoader",
                                               Each(details, PersonaImportance), Len(details)),
                        !.clock = @ + Len(details),
                        !.at[id] = "intent"]
    /\ UNCHANGED Single

\* agent.set_intent(request.task): api.py line 180
SimSetIntent(id) ==
    /\ service.at[id] = "intent"
    /\ service' = [SimAppend(service, id, "intent", <<"My", "goal", "is", "to:">> \o Tasks[id],
                             "IntentLoader", IntentImportance)
                     EXCEPT !.agents[id].intent = Tasks[id],
                            !.active_simulations[id] = "simulating",
                            !.at[id] = "session"]
    /\ UNCHANGED Single

\* one fast-loop cycle of the simulation's session: the agent appends an
\* observation, replaces its plan and next step by what the model derives
\* from its intent, and appends the plan_step record
SimCycle(id) ==
    /\ service.at[id] = "session"
    /\ service.cycle[id] < SimCycles
    /\ LET agent == service.agents[id]
           plan == <<"plan", "to">> \o agent.intent
           step == <<"step", "to">> \o agent.intent
           observed == SimAppend(service, id, "observation", Observation1,
                                 "PerceptionModule", 50)
           planned == SimAppend(observed, id, "plan_step",
                                <<"Plan:">> \o plan \o <<"Next", "step:">> \o step,
                                "PlanningModule", PlanImportance)
       IN  service' = [planned EXCEPT !.agents[id].current_plan = Str(plan),
                                      !.agents[id].next_step = Str(step),
                                      !.cycle[id] = @ + 1]
    /\ UNCHANGED Single

\* the session returns and run_simulation saves the result: lines 192-229
SimFinish(id) ==
    /\ service.at[id] = "session"
    /\ service.cycle[id] = SimCycles
    /\ service' = [service EXCEPT
                     !.simulation_results[id] = service.streams[service.agents[id].memory_stream],
                     !.active_simulations[id] = "completed",
                     !.at[id] = "ended"]
    /\ UNCHANGED Single

ServiceNext ==
    \/ set_api_key
    \/ \E id \in SimulationIds : start_simulation(id)
    \/ \E id \in SimulationIds : SimCreateStore(id)
    \/ \E id \in SimulationIds : SimCreateAgent(id)
    \/ \E id \in SimulationIds : SimSetPersona(id)
    \/ \E id \in SimulationIds : SimSetIntent(id)
    \/ \E id \in SimulationIds : SimCycle(id)
    \/ \E id \in SimulationIds : SimFinish(id)

\* the service running simulations side by side
ServiceSpec == Init /\ [][ServiceNext]_vars

\* ------------------------------------------------------------- vocabulary
\* a is an initial segment of b
IsPrefix(a, b) == Len(a) <= Len(b) /\ SubSeq(b, 1, Len(a)) = a
Last(s) == s[Len(s)]
\* the records of one type, in ledger order
OfType(mems, memory_type) == SelectSeq(mems, LAMBDA m : m.type = memory_type)
\* m is the record _run_action_module writes before it executes `action`
AttemptRecordOf(action, m) ==
    /\ m.type = "action_taken"
    /\ m.source_module = "ActionModule"
    /\ m.metadata = action
    /\ m.content = describe_action(action)
\* m is the record _run_action_module writes after the connector returned `result`
FailureRecordOf(result, m) ==
    /\ m.type = "action_taken"
    /\ m.source_module = "ActionModule"
    /\ m.content = <<"Action", "failed:">> \o Get(result, "message", <<"Unknown", "error">>)
\* this step is a call of execute_action
ExecuteStep == Len(dispatched') = Len(dispatched) + 1 /\ Last(dispatched').op = "execute_action"
\* this step is a call of execute_action that _run_action_module reads as a failure
FailedExecuteStep == ExecuteStep /\ ~Get(Last(dispatched').result, "success", FALSE)
\* the Act step has ended: no action of the batch is logged or dispatched any more
ActEnded == pc' \notin {"act_log", "act_exec"} /\ batch' = <<>>
\* action_taken records this fast-loop cycle has added, after this step
AddedByCycle == Len(OfType(memories', "action_taken")) - actions_before

\* ---------------------------------------------------------------------- C1
\* C1: the ledger is append-only.  Every step of the program (the setters, the
\* session start, the fast-loop and slow-loop modules, the termination check
\* with its sorted read of the action records, the result) leaves every record
\* already in the ledger at its position and unchanged; a step can only add
\* records at the end.
C1_AppendOnly == [][IsPrefix(memories, memories')]_vars

\* a session that went through every module and returned, with records of the
\* setters, of the start and of a module in the ledger
C1_Witness ==
    /\ pc = "done"
    /\ Len(memories) >= 4
    /\ fast_cycles >= 1
    /\ reflect_runs >= 1

\* ---------------------------------------------------------------------- C2
\* C2 as stated: when the connector reports failure for an action, the Act
\* step has appended the attempt record of that action and appends the
\* failure record right after it, returns the connector's result, and ends
\* without logging or dispatching a later action of the batch; a one-action
\* batch adds exactly two action_taken records in its cycle.
C2_AsStated ==
    [][FailedExecuteStep =>
         /\ AttemptRecordOf(batch[bi], Last(memories))
         /\ Len(memories') = Len(memories) + 1
         /\ FailureRecordOf(Last(dispatched').result, Last(memories'))
         /\ cycle_result' = Last(dispatched').result
         /\ ActEnded
         /\ (Len(batch) = 1 => AddedByCycle = 2)]_vars

\* C2 amended: when the connector reports failure for an action, the Act step
\* has appended the attempt record of that action and ends without logging or
\* dispatching a later action of the batch.  If the failure record can be
\* appended it follows the attempt record, the connector's result is returned
\* and a one-action batch has added exactly two action_taken records; if the
\* embedding model raises while the failure record is appended, the ledger
\* stays as it was after the attempt record, the step returns the error
\* result of its except branch (success false) and a one-action batch has
\* added exactly one action_taken record.
C2_FailedActionStopsBatch ==
    [][FailedExecuteStep =>
         /\ AttemptRecordOf(batch[bi], Last(memories))
         /\ ActEnded
         /\ IF faults' = faults
            THEN /\ Len(memories') = Len(memories) + 1
                 /\ FailureRecordOf(Last(dispatched').result, Last(memories'))
                 /\ cycle_result' = Last(dispatched').result
                 /\ (Len(batch) = 1 => AddedByCycle = 2)
            ELSE /\ memories' = memories
                 /\ cycle_result'.success = FALSE
                 /\ cycle_result'.message[1] = "Error:"
                 /\ (Len(batch) = 1 => AddedByCycle = 1)]_vars

\* a cycle whose action was refused by the connector has ended with the
\* attempt record and the failure record as the last two records
C2_Witness ==
    /\ pc = "check"
    /\ dispatched # <<>>
    /\ Last(dispatched).op = "execute_action"
    /\ cycle_result = Last(dispatched).result
    /\ ~Get(cycle_result, "success", FALSE)
    /\ Len(memories) >= 2
    /\ AttemptRecordOf(Last(dispatched).target, memories[Len(memories) - 1])
    /\ FailureRecordOf(cycle_result, Last(memories))
    /\ Len(OfType(memories, "action_taken")) - actions_before = 2

\* ---------------------------------------------------------------------- C3
\* C3: whenever execute_action is called for an action, the newest record of
\* the ledger is the action_taken record that describes this action, and the
\* call leaves it in the ledger whether it succeeds, fails or raises.
C3_AttemptLoggedBeforeExecute ==
    [][ExecuteStep =>
         /\ pc = "act_exec"
         /\ memories # <<>>
         /\ AttemptRecordOf(Last(dispatched').target, Last(memories))
         /\ memories'[Len(memories)] = Last(memories)]_vars

\* the browser raised inside execute_action and the attempt is in the ledger
C3_Witness ==
    \E i \in DOMAIN dispatched :
        /\ dispatched[i].op = "execute_action"
        /\ dispatched[i].result = Failed(<<"Action", "failed:", "boom">>)
        /\ \E k \in DOMAIN memories : AttemptRecordOf(dispatched[i].target, memories[k])

\* ---------------------------------------------------------------------- C4
\* C4 as stated: in a session that is not ended early, when the fourth
\* fast-loop cycle begins the slow loop (reflect, then wonder) has been
\* invoked at least once, three consecutive cycles having completed.
C4_SlowLoopBeforeFourthCycle ==
    (fast_cycles > SlowLoopPeriod) => (reflect_runs >= 1 /\ wonder_runs >= 1)

\* ---------------------------------------------------------------------- C5
\* the slow-loop runs of the last round of the loop: line 845
InLoopRuns == IF cycle > 0 /\ cycle % SlowLoopPeriod = 0 THEN 1 ELSE 0

\* C5 as stated: once the loop of a started session has ended and the final
\* reflect and wonder have run, each has run exactly once since the last
\* fast-loop cycle began, and a returned result holds their outputs.
C5_AsStated ==
    /\ pc \in {"return", "done"} => slow_since_fast = <<1, 1>>
    /\ pc = "done" => /\ session_result.reflections = last_reflect_out
                      /\ session_result.wonderings = last_wonder_out

\* C5 amended: every session whose loop ends, by the break or by running all
\* its rounds, runs reflect and then wonder exactly once after the loop; this
\* comes on top of the slow loop of the last round, which has run before the
\* loop ended when that round's index is a positive multiple of three.  Wonder
\* never runs ahead of reflect.  A returned result holds the outputs of the
\* run after the loop.
C5_FinalSlowLoop ==
    /\ pc \in {"return", "done"} =>
          /\ stopped \in {"break", "exhausted"}
          /\ slow_since_fast = <<InLoopRuns + 1, InLoopRuns + 1>>
    /\ pc \in {"final_reflect", "final_wonder"} => stopped \in {"break", "exhausted"}
    /\ pc = "final_reflect" => slow_since_fast = <<InLoopRuns, InLoopRuns>>
    /\ pc = "final_wonder" => slow_since_fast = <<InLoopRuns + 1, InLoopRuns>>
    /\ slow_since_fast[2] <= slow_since_fast[1]
    /\ slow_since_fast[1] <= slow_since_fast[2] + 1
    /\ pc = "done" => /\ session_result.reflections = last_reflect_out
                      /\ session_result.wonderings = last_wonder_out

\* a session ended by the break in the round with index 3: reflect and wonder
\* ran in that round and again after the loop
C5_Witness ==
    /\ pc = "done"
    /\ stopped = "break"
    /\ cycle = SlowLoopPeriod
    /\ slow_since_fast = <<2, 2>>

\* ---------------------------------------------------------------------- C6
\* the three newest action_taken records exist and at least two of them carry
\* the failure marker
FailureStreak ==
    LET acts == OfType(memories, "action_taken")
        n == Len(acts)
    IN  /\ n >= FailureWindow
        /\ Cardinality({ i \in (n - FailureWindow + 1) .. n :
                           InLower("failed", acts[i].content) }) >= FailureThreshold

\* some reflection record carries both completion markers
CompletionReflected ==
    \E i \in DOMAIN memories :
        /\ memories[i].type = "reflection"
        /\ \E j \in DOMAIN memories[i].content :
              LowerWord(memories[i].content[j]) \in {"completed", "completed."}
        /\ \E j \in DOMAIN memories[i].content :
              LowerWord(memories[i].content[j]) \in {"task", "task.", "tasks"}

\* the loop is about to decide on a further round, a fast-loop cycle (and the
\* slow loop, if it was due) having run
AfterACycle == pc = "loop" /\ fast_cycles >= 1

\* C6: after a fast-loop cycle the session goes on to a further cycle only if
\* fewer than two of the three newest action_taken records carry the failure
\* marker; with two or more it leaves the loop for the final reflect and wonder.
C6_StopsOnFailureStreak ==
    /\ AfterACycle => ~FailureStreak
    /\ pc \in {"perceive", "plan", "act"} => ~FailureStreak

\* a session whose first cycle failed an action and that was ended by the
\* break with rounds left, no reflection having reported completion
C6_Witness ==
    /\ pc = "done"
    /\ stopped = "break"
    /\ FailureStreak
    /\ ~CompletionReflected
    /\ fast_cycles < max_cycles

\* ---------------------------------------------------------------------- C7
\* C7: after a fast-loop cycle the session goes on to a further cycle only if
\* no reflection record carries both "completed" and "task" (in any case of
\* letters); with such a record it leaves the loop for the final reflect and
\* wonder.
C7_StopsOnCompletion ==
    /\ AfterACycle => ~CompletionReflected
    /\ pc \in {"perceive", "plan", "act", "act_log", "act_exec"} => ~CompletionReflected

\* the slow loop of a round wrote a completion reflection and the break ended
\* the session, without a failure streak
C7_Witness ==
    /\ stopped = "break"
    /\ CompletionReflected
    /\ ~FailureStreak
    /\ reflect_runs >= 2

\* ---------------------------------------------------------------------- C8
\* C8: the task_completed flag of a returned result is the completion
\* heuristic evaluated on the ledger as it is when the result is built: true
\* exactly if some reflection record carries both markers.  A session with
\* max_cycles = 1 whose final reflect produced a reflection with both markers
\* returns 1 cycle run and task_completed true.
C8_FlagIsHeuristic ==
    pc = "done" =>
       /\ session_result.task_completed = CompletionReflected
       /\ (/\ max_cycles = 1
           /\ \E i \in DOMAIN session_result.reflections :
                 /\ InLower("completed", session_result.reflections[i])
                 /\ InLower("task", session_result.reflections[i]))
          => (session_result.cycles_completed = 1 /\ session_result.task_completed)

\* the one-cycle session whose only reflection, written after the loop,
\* reports completion
C8_Witness ==
    /\ pc = "done"
    /\ max_cycles = 1
    /\ reflect_runs = 1
    /\ session_result.reflections = <<Reflection2>>
    /\ session_result.task_completed
    /\ session_result.cycles_completed = 1

\* ---------------------------------------------------------------------- C9
\* C9: a session started without a persona or without an intent ends with the
\* precondition error, and at that point no call has gone to the browser
\* connector and the ledger holds nothing but what the setters wrote; no other
\* session ends with this error.
C9_PreconditionFirst ==
    /\ (pc # "idle" /\ (persona = NoPersona \/ intent = NoIntent)) =>
          /\ pc = "raised"
          /\ error = "ValueError"
          /\ dispatched = <<>>
          /\ browser_url = "blank"
          /\ \A i \in DOMAIN memories : memories[i].type \in {"persona_detail", "intent"}
    /\ error = "ValueError" => (persona = NoPersona \/ intent = NoIntent)

\* the session of an agent with a persona and no intent was refused
C9_Witness ==
    /\ pc = "raised"
    /\ error = "ValueError"
    /\ persona # NoPersona
    /\ intent = NoIntent
    /\ memories # <<>>

\* --------------------------------------------------------------------- C10
\* C10 as stated: with persona and intent set, no exception leaves
\* run_complete_session whatever the connector, the language model or the
\* embedding model do, and the result it returns has a field for the status
\* or the error.
C10_NeverRaises ==
    /\ (persona # NoPersona /\ intent # NoIntent) => pc # "raised"
    /\ pc = "done" => ("status" \in DOMAIN session_result \/ "error" \in DOMAIN session_result)

\* --------------------------------------------------------------------- C11
\* C11 as stated: for every max_cycles >= 0 a session whose loop has ended
\* returns a result, the result's count of cycles is the number of fast-loop
\* cycles the session executed, and that number is at most max_cycles.
C11_CyclesCounted ==
    /\ pc = "done" => /\ session_result.cycles_completed = fast_cycles
                      /\ fast_cycles <= max_cycles
    /\ stopped # "no" => pc # "raised"

\* --------------------------------------------------------------------- C12
\* C12 as stated: the URL of a returned result is the URL the browser is on
\* when the session ends, whatever navigate, click and back actions the
\* session executed after its start page loaded.
C12_FinalUrl ==
    (pc = "done" /\ dispatched[1].result.error_message = None)
        => session_result.url = browser_url

\* --------------------------------------------------------------------- C13
\* this step is a Plan step that returned to run_fast_loop_cycle
PlanReturns == pc = "plan" /\ pc' = "act"

\* C13 as stated: a Plan step whose response is not an object with rationale,
\* plan and next_step leaves current_plan and next_step as they were and
\* appends nothing; a Plan step whose response is such an object and whose
\* record the store accepts appends exactly one record, the plan_step record
\* of the plan and next step it has written.
C13_PlanKeptOnParseFailure ==
    [][PlanReturns =>
         IF ~plan_complete'
         THEN /\ current_plan' = current_plan
              /\ next_step' = next_step
              /\ memories' = memories
         ELSE faults' = faults =>
                /\ Len(memories') = Len(memories) + 1
                /\ Last(memories').type = "plan_step"
                /\ Last(memories').content =
                      <<"Plan:">> \o current_plan'.v \o <<"Next", "step:">> \o next_step'.v]_vars

\* ------------------------------------------------ claims on the Memory Store
\* the latest call was retrieve_memories and the embedding model answered
Retrieved == call.op = "retrieve_memories" /\ call.args.ok
\* the current_time and the weights the call of `args` works with
NowOf(args) == IF IsNone(args.current_time) THEN clock ELSE args.current_time.v
WeightsOf(args) == IF IsNone(args.weights) THEN DefaultWeights ELSE args.weights
\* the score of every record of mems for the call of `args`
ScoresOf(mems, args) ==
    [i \in DOMAIN mems |->
        final_score(mems[i], encode(args.query_text), NowOf(args), WeightsOf(args))]
\* every record has an importance and the weights have every key
Scorable(mems, args) == \A i \in DOMAIN mems : ~ScoresOf(mems, args)[i].raised
\* the position of record i when the records are sorted by descending score
\* and records of equal score keep their insertion order
StableRank(scores, i) ==
    1 + Cardinality({ j \in DOMAIN scores :
                        \/ scores[j].value > scores[i].value
                        \/ scores[j].value = scores[i].value /\ j < i })
StableTop(mems, args) ==
    LET scores == ScoresOf(mems, args) IN
    [k \in 1 .. Min(args.num_memories, Len(mems)) |->
        mems[CHOOSE i \in DOMAIN mems : StableRank(scores, i) = k]]
\* two records of the store have the same score for the call of `args`
Tie(mems, args) == Scorable(mems, args) /\ SortFails(ScoresOf(mems, args))

\* C14: retrieve on a store whose records can all be scored returns the
\* min(limit, store size) records of highest score, in descending order of
\* score, records of equal score in insertion order; a tie never makes it fail.
C14_StableTopK ==
    (Retrieved /\ memories # <<>> /\ Scorable(memories, call.args))
        => returned = Returned(StableTop(memories, call.args))

\* C15: retrieve on an empty store returns the empty list and raises nothing,
\* whatever the query text, the limit, current_time and the weights are, and
\* whether or not the embedding model is available.
C15_EmptyStoreReturnsEmpty ==
    (call.op = "retrieve_memories" /\ memories = <<>>) => returned = Returned(<<>>)
\* the empty store was queried with the embedding model down and with weights
\* that have no key
C15_Witness ==
    /\ call.op = "retrieve_memories"
    /\ memories = <<>>
    /\ ~call.args.ok
    /\ call.args.weights = Dict({}, DefaultWeights.v)
    /\ returned = Returned(<<>>)

\* the weights with every missing key given its documented default
CompleteWeights(w) ==
    IF IsNone(w) THEN DefaultWeights
    ELSE Dict(WeightKeys,
              [k \in WeightKeys |-> IF k \in w.keys THEN w.v[k] ELSE DefaultWeights.v[k]])

\* C16: retrieve on a non-empty store with weights that are absent, empty or
\* lack any of importance, relevance, recency, type_weights does what it does
\* with each missing part replaced by its default: it never raises for them.
C16_DefaultsSubstituted ==
    (Retrieved /\ memories # <<>>)
        => returned = retrieve_memories(memories, clock, call.args.query_text,
                                        call.args.current_time, call.args.num_memories,
                                        CompleteWeights(call.args.weights), TRUE)

\* the ledger with importance 5.0 in the records that were given none
WithDefaultImportance(mems) ==
    [i \in DOMAIN mems |->
        IF mems[i].importance_score = NoneScore
        THEN [mems[i] EXCEPT !.importance_score = 50] ELSE mems[i]]

\* C17: a record appended without an importance has importance 5.0, and
\* retrieve over a store with such a record scores it with 5.0 and does not fail.
C17_DefaultImportance ==
    /\ (call.op = "add_memory" /\ ~returned.raised /\ call.args.importance = NoneScore)
           => Last(memories).importance_score = 50
    /\ (Retrieved /\ memories # <<>> /\ WeightsOf(call.args).keys = WeightKeys)
           => returned = retrieve_memories(WithDefaultImportance(memories), clock,
                                           call.args.query_text, call.args.current_time,
                                           call.args.num_memories, call.args.weights, TRUE)

\* C18: when the embedding model fails during add_memory the failure reaches
\* the caller and the ledger is what it was before the call: no record, whole
\* or partial, is added.  A call that returns adds exactly one record.
C18_FailedAppendStoresNothing ==
    [][call'.op = "add_memory" =>
         IF returned'.raised
         THEN returned'.error = "EmbeddingError" /\ memories' = memories
         ELSE Len(memories') = Len(memories) + 1 /\ IsPrefix(memories, memories')]_vars
\* add_memory failed on a store that holds records
C18_Witness ==
    /\ call.op = "add_memory"
    /\ returned = Raises("EmbeddingError")
    /\ Len(memories) >= 2

\* the ledger as it was when save_to_file wrote the file: the ledger only
\* grows, so it is the initial segment with as many records as the file has
Saved == SubSeq(memories, 1, Len(file.text.v))

ScenarioRecords ==
    { [type |-> "intent", content |-> <<"buy", "a", "red", "sweater">>, importance |-> 100],
      [type |-> "observation", content |-> <<"red", "sweater", "$24.90">>, importance |-> 60],
      [type |-> "observation", content |-> <<"blue", "jacket", "$80">>, importance |-> 60] }
\* what the client gave add_memory for the record m
AppendedAs(m) == [type |-> m.type, content |-> m.content, importance |-> m.importance_score]
\* the store holds the three records of the scenario, in any order, and the
\* latest call is retrieve_memories("red sweater", num_memories=1) with the
\* default weights
ScenarioRetrieved ==
    /\ Retrieved
    /\ Len(memories) = 3
    /\ { AppendedAs(memories[i]) : i \in DOMAIN memories } = ScenarioRecords
    /\ call.args.query_text = <<"red", "sweater">>
    /\ call.args.num_memories = 1
    /\ IsNone(call.args.weights)

\* C21: with the default weights, in a store holding the intent "buy a red
\* sweater" (importance 10) and the observations "red sweater $24.90" and "blue
\* jacket $80" (importance 6) at distinct timestamps, retrieve("red sweater",
\* limit=1) returns the red-sweater observation.
C21_RedSweaterFirst ==
    ScenarioRetrieved
        => /\ ~returned.raised
           /\ Len(returned.value) = 1
           /\ returned.value[1].type = "observation"
           /\ returned.value[1].content = <<"red", "sweater", "$24.90">>

\* ----------------------------------------------- claims on the adapter and Act
\* the action types the specification documents
DocumentedTypes == {"click", "input", "scroll", "navigate", "back", "wait"}
\* the action types execute_action has a branch for
PerformedTypes == DocumentedTypes \cup {"submit"}
TypeOf(action) == LowerWord(Get(action, "type", ""))
\* this step dispatches an action whose type is not in `types`
UnsupportedStep(types) == ExecuteStep /\ TypeOf(batch[bi]) \notin types

NotPerformed(result) ==
    \/ Get(result, "success", TRUE) = FALSE
    \/ Get(result, "error_message", None) # None

\* C23: for every action of a documented type, what execute_action returns
\* carries a boolean success flag, true when the action was performed; so the
\* Act step appends a failure record only for an action that the adapter did
\* not perform.
C23_SuccessFlagReported ==
    [][(ExecuteStep /\ TypeOf(batch[bi]) \in DocumentedTypes) =>
         LET result == Last(dispatched').result IN
         /\ "success" \in DOMAIN result
         /\ result.success \in BOOLEAN
         /\ result.success = ~NotPerformed(result)
         /\ Len(memories') > Len(memories) => NotPerformed(result)]_vars

\* ---------------------------------------------------- claims on the service
\* this step is a step of simulation j
Stepped(j) == service'.at[j] # service.at[j] \/ service'.cycle[j] # service.cycle[j]
\* what belongs to simulation id: its agent with persona, intent, plan, next
\* step and language-model client, its store and ledger, its status, its result
OwnedBy(sv, id) ==
    <<sv.agents[id], sv.memory_streams[id], LedgerOf(sv, id), sv.active_simulations[id],
      sv.simulation_results[id]>>
RecordIds(mems) == { mems[i].id : i \in DOMAIN mems }
\* the ledgers and results of two simulations have no record in common, and
\* every intent record of a simulation states the task of its own request
Separate(sv) ==
    \A id \in SimulationIds :
       /\ \A other \in SimulationIds \ {id} :
             /\ RecordIds(LedgerOf(sv, id)) \cap RecordIds(LedgerOf(sv, other)) = {}
             /\ RecordIds(sv.simulation_results[id]) \cap RecordIds(LedgerOf(sv, other)) = {}
       /\ \A i \in DOMAIN LedgerOf(sv, id) :
             LedgerOf(sv, id)[i].type = "intent"
                => LedgerOf(sv, id)[i].content = <<"My", "goal", "is", "to:">> \o Tasks[id]
       /\ sv.agents[id].intent \in {NoIntent, Tasks[id]}
       /\ sv.agents[id].current_plan \in {Str(<<>>), Str(<<"plan", "to">> \o Tasks[id])}
       /\ IsPrefix(sv.simulation_results[id], LedgerOf(sv, id))

Begins(module) == module_runs'[module] = module_runs[module] + 1
\* this step is the return of run_fast_loop_cycle
CycleReturns == pc \in {"act", "act_log", "act_exec"} /\ pc' \in {"check", "slow_reflect"}
RanOnce(perceive, plan, act) == [perceive |-> perceive, plan |-> plan, act |-> act]

\* C25: in a fast-loop cycle Perceive, Plan and Act run in that order and no
\* more than once; Plan begins only when Perceive has returned, Act only when
\* Plan has returned; Plan follows a Perceive that returned and Act a Plan that
\* returned whether or not they produced anything; a cycle that returns has
\* run each of the three exactly once.
C25_PerceivePlanActInOrder ==
    [][/\ Begins("perceive") => module_runs = NoRuns /\ pc = "perceive"
       /\ Begins("plan") => module_runs = RanOnce(1, 0, 0) /\ pc = "plan"
       /\ Begins("act") => module_runs = RanOnce(1, 1, 0) /\ pc = "act"
       /\ (pc = "perceive" /\ pc' \notin {"perceive", "raised"}) => pc' = "plan"
       /\ (pc = "plan" /\ pc' \notin {"plan", "raised"}) => pc' = "act"
       /\ pc' = "plan" => pc \in {"perceive", "plan"}
       /\ pc' = "act" => pc \in {"plan", "act"}
       /\ CycleReturns => module_runs' = RanOnce(1, 1, 1)]_vars
\* the action module has begun in a cycle of a session in which no
\* observation and no plan_step was ever recorded
C25_Witness ==
    /\ pc = "act_log"
    /\ module_runs = RanOnce(1, 1, 1)
    /\ OfType(memories, "observation") = <<>>
    /\ OfType(memories, "plan_step") = <<>>
    /\ fast_cycles >= 2

\* this step is a call of run_reflection_module / run_wonder_module
Reflects == reflect_runs' = reflect_runs + 1
Wonders == wonder_runs' = wonder_runs + 1
\* this step appends no record of the type
AddsNo(memory_type) == OfType(memories', memory_type) = OfType(memories, memory_type)
\* the language model's response to this step's call carried nothing the
\* module could use, as when the call failed
NothingUsable == llm_calls' = 1 /\ outputs' = outputs

\* C26: nothing is retried.  Every invocation of Perceive, Plan, Act, Reflect
\* or Wonder calls the language model at most once; every action of a batch is
\* dispatched to the adapter at most once, in order; and a module whose call
\* gave nothing usable, as a failed call does, appends no record of its type
\* and ends.
C26_NoRetry ==
    [][/\ llm_calls' <= 1
       /\ ExecuteStep =>
            /\ pc = "act_exec"
            /\ Last(dispatched').target = batch[bi]
            /\ IF pc' = "act_log" THEN bi' = bi + 1 /\ batch' = batch ELSE ActEnded
       /\ (Begins("perceive") /\ NothingUsable) => AddsNo("observation") /\ pc' = "plan"
       /\ (Begins("plan") /\ NothingUsable) =>
            AddsNo("plan_step") /\ current_plan' = current_plan /\ pc' = "act"
       /\ (Begins("act") /\ NothingUsable) =>
            /\ AddsNo("action_taken")
            /\ dispatched' = dispatched
            /\ ActEnded
            /\ cycle_result'.success = FALSE
       /\ (Reflects /\ NothingUsable) => AddsNo("reflection") /\ last_reflect_out' = <<>>
       /\ (Wonders /\ NothingUsable) => AddsNo("wonder") /\ last_wonder_out' = <<>>]_vars
\* the action module ended after its one call of the language model failed:
\* nothing was recorded or dispatched in the cycle
C26_Witness ==
    /\ pc \in {"check", "slow_reflect"}
    /\ cycle_result = Failed(<<"Failed", "to", "generate", "action">>)
    /\ llm_calls = 1
    /\ Len(OfType(memories, "action_taken")) = actions_before
    /\ fast_cycles >= 2

\* the importance the specification gives an observation, in tenths: 5.0, plus
\* 0.5 for each distinct word shared with the intent up to 3.0, plus 0.5 for
\* each UI keyword present, kept within 1.0 and 10.0
SharedWords(a, b) == { LowerWord(a[i]) : i \in DOMAIN a } \cap { LowerWord(b[i]) : i \in DOMAIN b }
KeywordsIn(text) ==
    { k \in DOMAIN UiKeywords : \E i \in DOMAIN text : LowerWord(text[i]) = UiKeywords[k] }
Clamp(x) == IF x < 10 THEN 10 ELSE IF x > 100 THEN 100 ELSE x
HeuristicScore(goal, text) ==
    LET bonus == 5 * Cardinality(SharedWords(goal, text)) IN
    Clamp(50 + (IF bonus > 30 THEN 30 ELSE bonus) + 5 * Cardinality(KeywordsIn(text)))

Executed == SelectSeq(dispatched, LAMBDA d : d.op = "execute_action")
\* the Act step read what the connector returned for this call as a failure
FailedCall(d) == ~Get(d.result, "success", FALSE)
\* the failure record of this call is in the ledger
FailureStored(d) ==
    \E i \in DOMAIN memories :
        memories[i].timestamp = d.at /\ FailureRecordOf(d.result, memories[i])
\* the description recorded for the action of this call carries the failure marker
Marked(d) == InLower("failed", describe_action(d.target))
\* the two newest calls both failed: a cycle whose only action failed, after
\* a cycle that ended with a failed action
LastTwoFailed ==
    /\ Len(Executed) >= 2
    /\ FailedCall(Executed[Len(Executed)])
    /\ FailedCall(Executed[Len(Executed) - 1])
\* the break left the loop and no reflection reports completion
EndedByFailureStreak == stopped = "break" /\ ~CompletionReflected

BreakStep == pc = "check" /\ pc' = "final_reflect"

\* C29: a session starts without reflection records, so when the break leaves
\* the loop with a reflection reporting completion in the ledger, the cycle
\* just run has a 0-based index that is a positive multiple of 3, and
\* max_cycles is above 3; the index stays as it is until the result is built,
\* which therefore reports 4, 7, 10, ... cycles.
C29_CompletionOnlyAfterSlowLoop ==
    [][/\ pc = "idle" => ~CompletionReflected
       /\ (BreakStep /\ CompletionReflected) =>
             /\ cycle > 0
             /\ cycle % SlowLoopPeriod = 0
             /\ max_cycles > SlowLoopPeriod
             /\ fast_cycles = cycle + 1
       /\ stopped = "break" => cycle' = cycle
       /\ (stopped = "break" /\ pc' = "done") =>
             session_result'.cycles_completed = cycle + 1]_vars
\* a session of max_cycles 4 or more that no failure streak ended: the
\* reflection of the slow loop in the cycle of index 3 reported completion, the
\* break followed and the result reports 4 cycles
C29_Witness ==
    /\ pc = "done"
    /\ stopped = "break"
    /\ ~FailureStreak
    /\ CompletionReflected
    /\ session_result.cycles_completed = SlowLoopPeriod + 1
    /\ session_result.task_completed

\* --------------------------------------------------------------------- C30
\* nothing shows that an action was ever obtained: none was logged or sent to
\* the connector, and the record of the first navigation is the only
\* action_taken record
NoActionSoFar ==
    /\ batch = <<>>
    /\ Executed = <<>>
    /\ Len(OfType(memories, "action_taken")) <= 1
\* no action was obtained in any cycle so far: no provider failed, and every
\* response that carried items was one of insights, each stored as a reflection
NoActionObtained ==
    /\ NoActionSoFar
    /\ faults = 0
    /\ outputs = Len(OfType(memories, "reflection"))
\* the loop is over and the session went on to the final reflect and wonder
LoopOver == pc \in {"final_reflect", "final_wonder", "return", "done"}

\* C30 as stated: a session in whose cycles Act never obtained an action has
\* run all max_cycles cycles when it leaves the loop.
C30_AsStated == (NoActionObtained /\ LoopOver) => fast_cycles = max_cycles

\* C30 amended: an Act step whose response carries no action appends no
\* action_taken record, dispatches nothing and makes the cycle return success
\* false; while no action has been logged or dispatched the failure streak
\* does not hold, and the loop is left either after all max_cycles cycles or
\* by the break after a cycle whose slow loop left a reflection that reports
\* completion (an exception of a module ends the session instead).
C30_NoActionRunsOn ==
    [][/\ (Begins("act") /\ NothingUsable) =>
             /\ AddsNo("action_taken")
             /\ dispatched' = dispatched
             /\ ActEnded
             /\ cycle_result'.success = FALSE
       /\ NoActionSoFar => ~FailureStreak
       /\ (BreakStep /\ NoActionSoFar) =>
             CompletionReflected /\ cycle > 0 /\ cycle % SlowLoopPeriod = 0
       /\ (pc = "loop" /\ pc' = "final_reflect") =>
             stopped' = "exhausted" /\ fast_cycles = max_cycles]_vars
\* a session of the default length in which no action was ever obtained: it
\* ran its ten cycles, the slow loop ran in three of them, and it returned
C30_Witness ==
    /\ pc = "done"
    /\ NoActionSoFar
    /\ stopped = "exhausted"
    /\ fast_cycles = DefaultMaxCycles
    /\ session_result.cycles_completed = DefaultMaxCycles
    /\ reflect_runs = 4
    /\ ~CompletionReflected

====
